---- MODULE Spec2Model ----
(***************************************************************************)
(* Model of the JSON-RPC client of genyleap/bitcoin-rpc                    *)
(* (src/source/bitcoinclient.hpp, src/source/bitcoinclient.cpp).           *)
(*                                                                         *)
(* A call goes through BitcoinClient::sendRequest: buildRpcRequest         *)
(* serialises the envelope, Network::sendPostRequest carries it, and       *)
(* parseRpcResponse decodes the answer.  The named operations are thin     *)
(* wrappers that marshal their arguments into a Json::Value and call       *)
(* sendRequest.                                                            *)
(***************************************************************************)
EXTENDS Integers, Sequences, FiniteSets, TLC

(***************************************************************************)
(* Json::Value.  Every value has the same record shape, so that values of  *)
(* different variants can be compared; `type` is the variant tag, and only *)
(* the field of that variant is meaningful: b (boolean), n (integer, or a  *)
(* real in units of 10^-8), s (string), a (array elements, in order),      *)
(* o (object members: a function from member names to values).             *)
(***************************************************************************)
MkValue(t, b, n, s, a, o) == [type |-> t, b |-> b, n |-> n, s |-> s, a |-> a, o |-> o]

Null == MkValue("null", FALSE, 0, "", <<>>, <<>>)

BoolV(b) == MkValue("bool", b, 0, "", <<>>, <<>>)

IntV(n) == MkValue("int", FALSE, n, "", <<>>, <<>>)

RealV(n) == MkValue("real", FALSE, n, "", <<>>, <<>>)

StrV(s) == MkValue("string", FALSE, 0, s, <<>>, <<>>)

ArrV(a) == MkValue("array", FALSE, 0, "", a, <<>>)

ObjV(o) == MkValue("object", FALSE, 0, "", <<>>, o)

isNull(v) == v.type = "null"

empty(s) == s.s = ""

\* Json::Value::append: a null value becomes an array, then the element is
\* pushed at the end.
append(v, x) == ArrV(Append(v.a, x))

\* Json::Value::operator[](key) = x on a null or object value: a null value
\* becomes an object; the member is created or overwritten.
setMember(v, key, x) == ObjV((key :> x) @@ v.o)

\* Json::Value::operator[](key) read on a null or object value: the member,
\* or null when the object has no such member.
member(v, key) == IF key \in DOMAIN v.o THEN v.o[key] ELSE Null

\* operator[](key) asserts that the value is null or an object.
indexable(v) == v.type \in {"null", "object"}

\* for (const auto& x : vec) arr.append(x): nothing is appended, and arr
\* stays what it was, when vec is empty.
RECURSIVE appendAll(_, _)
appendAll(arr, vec) ==
    IF vec = <<>> THEN arr ELSE appendAll(append(arr, Head(vec)), Tail(vec))

\* Member names in the order std::map keeps them (jsoncpp's ObjectValues).
KeyOrder ==
    << "addr1", "addr2", "blocks", "chain", "code", "error", "id", "jsonrpc",
       "message", "method", "params", "result", "txid", "vout" >>

SortedKeys(o) == SelectSeq(KeyOrder, LAMBDA k : k \in DOMAIN o)

\* for (const auto& [k, x] : map) obj[k] = x, over the map's sorted keys.
RECURSIVE setAllFrom(_, _, _)
setAllFrom(obj, map, keys) ==
    IF keys = <<>> THEN obj
    ELSE setAllFrom(setMember(obj, Head(keys), map[Head(keys)]), map, Tail(keys))

setAll(obj, map) == setAllFrom(obj, map, SortedKeys(map))

(***************************************************************************)
(* Text.  A JSON text is the sequence of its lexemes.                      *)
(***************************************************************************)
Tok(k) == [k |-> k, n |-> 0, s |-> ""]

IntTok(n) == [k |-> "int", n |-> n, s |-> ""]

RealTok(n) == [k |-> "real", n |-> n, s |-> ""]

StrTok(s) == [k |-> "string", n |-> 0, s |-> s]

\* Json::writeString(StreamWriterBuilder, v).
RECURSIVE writeValue(_), writeElements(_, _), writeMembers(_, _)
writeValue(v) ==
    CASE v.type = "null" -> << Tok("null") >>
      [] v.type = "bool" -> << Tok(IF v.b THEN "true" ELSE "false") >>
      [] v.type = "int" -> << IntTok(v.n) >>
      [] v.type = "real" -> << RealTok(v.n) >>
      [] v.type = "string" -> << StrTok(v.s) >>
      [] v.type = "array" -> << Tok("[") >> \o writeElements(v.a, 1) \o << Tok("]") >>
      [] v.type = "object" ->
            << Tok("{") >> \o writeMembers(v.o, SortedKeys(v.o)) \o << Tok("}") >>

writeElements(a, i) ==
    IF i > Len(a) THEN <<>>
    ELSE (IF i > 1 THEN << Tok(",") >> ELSE <<>>)
            \o writeValue(a[i]) \o writeElements(a, i + 1)

writeMembers(o, keys) ==
    IF keys = <<>> THEN <<>>
    ELSE << StrTok(Head(keys)), Tok(":") >> \o writeValue(o[Head(keys)])
            \o (IF Len(keys) > 1 THEN << Tok(",") >> ELSE <<>>)
            \o writeMembers(o, Tail(keys))

writeString(v) == writeValue(v)

\* Json::parseFromStream(CharReaderBuilder, ...): the default reader accepts
\* any JSON value as the root and ignores what follows it (strictRoot and
\* failIfExtra are off); a repeated member name keeps the last value.
ParseFail == [ok |-> FALSE, value |-> Null, next |-> 0]

ParseOk(v, next) == [ok |-> TRUE, value |-> v, next |-> next]

RECURSIVE readValue(_, _), readArray(_, _, _), readObject(_, _, _)
readValue(toks, i) ==
    IF i > Len(toks) THEN ParseFail
    ELSE LET tk == toks[i] IN
         CASE tk.k = "null" -> ParseOk(Null, i + 1)
           [] tk.k = "true" -> ParseOk(BoolV(TRUE), i + 1)
           [] tk.k = "false" -> ParseOk(BoolV(FALSE), i + 1)
           [] tk.k = "int" -> ParseOk(IntV(tk.n), i + 1)
           [] tk.k = "real" -> ParseOk(RealV(tk.n), i + 1)
           [] tk.k = "string" -> ParseOk(StrV(tk.s), i + 1)
           [] tk.k = "[" ->
                IF i + 1 <= Len(toks) /\ toks[i + 1].k = "]"
                THEN ParseOk(ArrV(<<>>), i + 2)
                ELSE readArray(toks, i + 1, <<>>)
           [] tk.k = "{" ->
                IF i + 1 <= Len(toks) /\ toks[i + 1].k = "}"
                THEN ParseOk(ObjV(<<>>), i + 2)
                ELSE readObject(toks, i + 1, <<>>)
           [] OTHER -> ParseFail

\* The value read at i is bound once (r ranges over a one-element set), so
\* that the rest of the text is read from where that value ended.
readArray(toks, i, acc) ==
    CHOOSE out \in
        { IF ~r.ok \/ r.next > Len(toks) THEN ParseFail
          ELSE IF toks[r.next].k = "," THEN readArray(toks, r.next + 1, Append(acc, r.value))
          ELSE IF toks[r.next].k = "]" THEN ParseOk(ArrV(Append(acc, r.value)), r.next + 1)
          ELSE ParseFail : r \in {readValue(toks, i)} } : TRUE

readObject(toks, i, acc) ==
    IF i + 1 > Len(toks) \/ toks[i].k # "string" \/ toks[i + 1].k # ":" THEN ParseFail
    ELSE CHOOSE out \in
        { IF ~r.ok \/ r.next > Len(toks) THEN ParseFail
          ELSE LET acc2 == (toks[i].s :> r.value) @@ acc IN
               IF toks[r.next].k = "," THEN readObject(toks, r.next + 1, acc2)
               ELSE IF toks[r.next].k = "}" THEN ParseOk(ObjV(acc2), r.next + 1)
               ELSE ParseFail : r \in {readValue(toks, i + 2)} } : TRUE

\* A reader that takes every number for a floating-point number.
parseFromStream_integersAsReals(text) ==
    readValue([i \in 1 .. Len(text) |->
                   IF text[i].k = "int" THEN RealTok(text[i].n) ELSE text[i]], 1)

parseFromStream(text) == readValue(text, 1)

(***************************************************************************)
(* The named operations.  Each marshals its arguments (given here as the   *)
(* Json::Value each C++ argument converts to; a std::vector is an array    *)
(* value and a std::map an object value) and makes one sendRequest call.   *)
(***************************************************************************)

\* buildParams leaving out the arguments that are null.
buildParams_skipsNull(args) == appendAll(Null, SelectSeq(args, LAMBDA x : ~isNull(x)))

\* template<typename... Args> buildParams(args...): every argument is
\* appended, in order, to a value that starts null.
buildParams(args) == appendAll(Null, args)

\* sendRequest's default argument: params = Json::Value().
DefaultParams == Null

\* The call sendRequest(method, params) a wrapper makes.
Call(method, params) == [method |-> method, params |-> params]

\* bitcoinclient.cpp:52-54
getBestBlockHash == Call("getbestblockhash", DefaultParams)

\* bitcoinclient.cpp:56-58
getBlock(blockHash, verbose) ==
    Call("getblock", buildParams(<< blockHash, IF verbose.b THEN IntV(2) ELSE IntV(1) >>))

\* bitcoinclient.cpp:60-62
getBlockchainInfo == Call("getblockchaininfo", DefaultParams)

\* bitcoinclient.cpp:64-66
getBlockCount == Call("getblockcount", DefaultParams)

\* bitcoinclient.cpp:68-70
getBlockFilter(blockHash, filterType) ==
    Call("getblockfilter", buildParams(<< blockHash, filterType >>))

\* bitcoinclient.cpp:72-74
getBlockHash(height) == Call("getblockhash", buildParams(<< height >>))

\* bitcoinclient.cpp:76-78
getBlockHeader(blockHash, verbose) == Call("getblockheader", buildParams(<< blockHash, verbose >>))

\* getBlockStats with statsArray constructed as an array (Json::arrayValue).
getBlockStats_arrayValue(blockHash, stats) ==
    Call("getblockstats", buildParams(<< blockHash, ArrV(stats.a) >>))

\* bitcoinclient.cpp:80-84
getBlockStats(blockHash, stats) ==
    LET statsArray0 == Null
        statsArray1 == appendAll(statsArray0, stats.a)
    IN  Call("getblockstats", buildParams(<< blockHash, statsArray1 >>))

\* bitcoinclient.cpp:86-88
getChainTips == Call("getchaintips", DefaultParams)

\* bitcoinclient.cpp:90-94
getChainTxStats(nBlocks, blockHash) ==
    LET params0 == buildParams(<< nBlocks >>)
        params1 == IF ~empty(blockHash) THEN append(params0, blockHash) ELSE params0
    IN  Call("getchaintxstats", params1)

\* bitcoinclient.cpp:96-98
getDifficulty == Call("getdifficulty", DefaultParams)

\* bitcoinclient.cpp:100-102
getMempoolAncestors(txid, verbose) == Call("getmempoolancestors", buildParams(<< txid, verbose >>))

\* bitcoinclient.cpp:104-106
getMempoolDescendants(txid, verbose) ==
    Call("getmempooldescendants", buildParams(<< txid, verbose >>))

\* bitcoinclient.cpp:108-110
getMempoolEntry(txid) == Call("getmempoolentry", buildParams(<< txid >>))

\* bitcoinclient.cpp:112-114
getMempoolInfo == Call("getmempoolinfo", DefaultParams)

\* bitcoinclient.cpp:116-118
getRawMempool(verbose) == Call("getrawmempool", buildParams(<< verbose >>))

\* bitcoinclient.cpp:120-122
getTxOut(txid, n, includeMempool) == Call("gettxout", buildParams(<< txid, n, includeMempool >>))

\* bitcoinclient.cpp:124-130
getTxOutProof(txids, blockHash) ==
    LET txidsArray0 == Null
        txidsArray1 == appendAll(txidsArray0, txids.a)
        params0 == buildParams(<< txidsArray1 >>)
        params1 == IF ~empty(blockHash) THEN append(params0, blockHash) ELSE params0
    IN  Call("gettxoutproof", params1)

\* bitcoinclient.cpp:132-134
getTxOutSetInfo == Call("gettxoutsetinfo", DefaultParams)

\* bitcoinclient.cpp:136-138
preciousBlock(blockHash) == Call("preciousblock", buildParams(<< blockHash >>))

\* bitcoinclient.cpp:140-142
pruneBlockchain(height) == Call("pruneblockchain", buildParams(<< height >>))

\* bitcoinclient.cpp:144-146
saveMempool == Call("savemempool", DefaultParams)

\* bitcoinclient.cpp:148-152
scanTxOutSet(descriptors) ==
    LET descriptorsArray0 == Null
        descriptorsArray1 == appendAll(descriptorsArray0, descriptors.a)
    IN  Call("scantxoutset", buildParams(<< descriptorsArray1 >>))

\* bitcoinclient.cpp:154-156
verifyChain(checkLevel, nBlocks) == Call("verifychain", buildParams(<< checkLevel, nBlocks >>))

\* bitcoinclient.cpp:158-160
verifyTxOutProof(proof) == Call("verifytxoutproof", buildParams(<< proof >>))

\* bitcoinclient.cpp:162-164
getMemoryInfo == Call("getmemoryinfo", DefaultParams)

\* bitcoinclient.cpp:166-168
getRpcInfo == Call("getrpcinfo", DefaultParams)

\* bitcoinclient.cpp:170-172
help(command) == Call("help", IF empty(command) THEN Null ELSE buildParams(<< command >>))

\* bitcoinclient.cpp:174-179
logging(include, exclude) ==
    LET includeArray0 == Null
        excludeArray0 == Null
        includeArray1 == appendAll(includeArray0, include.a)
        excludeArray1 == appendAll(excludeArray0, exclude.a)
    IN  Call("logging", buildParams(<< includeArray1, excludeArray1 >>))

\* bitcoinclient.cpp:181-183
stop == Call("stop", DefaultParams)

\* bitcoinclient.cpp:185-187
uptime == Call("uptime", DefaultParams)

\* bitcoinclient.cpp:189-193
generateBlock(outputAddress, transactions) ==
    LET txArray0 == Null
        txArray1 == appendAll(txArray0, transactions.a)
    IN  Call("generateblock", buildParams(<< outputAddress, txArray1 >>))

\* bitcoinclient.cpp:195-197
generateToAddress(nBlocks, address) ==
    Call("generatetoaddress", buildParams(<< nBlocks, address >>))

\* bitcoinclient.cpp:199-201
generateToDescriptor(nBlocks, descriptor) ==
    Call("generatetodescriptor", buildParams(<< nBlocks, descriptor >>))

\* bitcoinclient.cpp:203-205
getBlockTemplate(templateRequest) ==
    Call("getblocktemplate", IF empty(templateRequest) THEN Null ELSE buildParams(<< templateRequest >>))

\* bitcoinclient.cpp:207-209
getMiningInfo == Call("getmininginfo", DefaultParams)

\* bitcoinclient.cpp:211-213
getNetworkHashPS(nBlocks, height) == Call("getnetworkhashps", buildParams(<< nBlocks, height >>))

\* bitcoinclient.cpp:215-217
prioritiseTransaction(txid, feeDelta) ==
    Call("prioritisetransaction", buildParams(<< txid, feeDelta >>))

\* submitBlock calling one method without the second argument and another
\* with it.
submitBlock_twoMethods(hexData, parameters) ==
    IF empty(parameters) THEN Call("submitblock", buildParams(<< hexData >>))
    ELSE Call("submitblockwithparams", buildParams(<< hexData, parameters >>))

\* bitcoinclient.cpp:219-222
submitBlock(hexData, parameters) ==
    IF empty(parameters) THEN Call("submitblock", buildParams(<< hexData >>))
    ELSE Call("submitblock", buildParams(<< hexData, parameters >>))

\* bitcoinclient.cpp:224-226
submitHeader(hexHeader) == Call("submitheader", buildParams(<< hexHeader >>))

\* bitcoinclient.cpp:228-230
addNode(node, command) == Call("addnode", buildParams(<< node, command >>))

\* bitcoinclient.cpp:232-234
clearBanned == Call("clearbanned", DefaultParams)

\* bitcoinclient.cpp:236-238
disconnectNode(address) == Call("disconnectnode", buildParams(<< address >>))

\* bitcoinclient.cpp:240-242
getAddedNodeInfo(node) ==
    Call("getaddednodeinfo", IF empty(node) THEN Null ELSE buildParams(<< node >>))

\* bitcoinclient.cpp:244-246
getConnectionCount == Call("getconnectioncount", DefaultParams)

\* bitcoinclient.cpp:248-250
getNetTotals == Call("getnettotals", DefaultParams)

\* bitcoinclient.cpp:252-254
getNetworkInfo == Call("getnetworkinfo", DefaultParams)

\* bitcoinclient.cpp:256-258
getNodeAddresses(count) == Call("getnodeaddresses", buildParams(<< count >>))

\* bitcoinclient.cpp:260-262
getPeerInfo == Call("getpeerinfo", DefaultParams)

\* bitcoinclient.cpp:264-266
listBanned == Call("listbanned", DefaultParams)

\* bitcoinclient.cpp:268-270
ping == Call("ping", DefaultParams)

\* bitcoinclient.cpp:272-274
setBan(subnet, command, banTime, absolute) ==
    Call("setban", buildParams(<< subnet, command, banTime, absolute >>))

\* bitcoinclient.cpp:276-278
setNetworkActive(state) == Call("setnetworkactive", buildParams(<< state >>))

\* bitcoinclient.cpp:280-282
analyzePsbt(psbt) == Call("analyzepsbt", buildParams(<< psbt >>))

\* bitcoinclient.cpp:284-288
combinePsbt(psbts) ==
    LET psbtsArray0 == Null
        psbtsArray1 == appendAll(psbtsArray0, psbts.a)
    IN  Call("combinepsbt", buildParams(<< psbtsArray1 >>))

\* bitcoinclient.cpp:290-294
combineRawTransaction(hexStrings) ==
    LET hexArray0 == Null
        hexArray1 == appendAll(hexArray0, hexStrings.a)
    IN  Call("combinerawtransaction", buildParams(<< hexArray1 >>))

\* bitcoinclient.cpp:296-298
convertToPsbt(hexString, permitsigdata, iswitness) ==
    Call("converttopsbt", buildParams(<< hexString, permitsigdata, iswitness >>))

\* bitcoinclient.cpp:300-308
createPsbt(inputs, outputs) ==
    LET inputsArray0 == Null
        inputsArray1 == appendAll(inputsArray0, inputs.a)
        outputsObj0 == Null
        outputsObj1 == setAll(outputsObj0, outputs.o)
    IN  Call("createpsbt", buildParams(<< inputsArray1, outputsObj1 >>))

\* bitcoinclient.cpp:310-318
createRawTransaction(inputs, outputs) ==
    LET inputsArray0 == Null
        inputsArray1 == appendAll(inputsArray0, inputs.a)
        outputsObj0 == Null
        outputsObj1 == setAll(outputsObj0, outputs.o)
    IN  Call("createrawtransaction", buildParams(<< inputsArray1, outputsObj1 >>))

\* bitcoinclient.cpp:320-322
decodePsbt(psbt) == Call("decodepsbt", buildParams(<< psbt >>))

\* bitcoinclient.cpp:324-326
decodeRawTransaction(hexString, iswitness) ==
    Call("decoderawtransaction", buildParams(<< hexString, iswitness >>))

\* bitcoinclient.cpp:328-330
decodeScript(hexString) == Call("decodescript", buildParams(<< hexString >>))

\* bitcoinclient.cpp:332-334
finalizePsbt(psbt, extract) == Call("finalizepsbt", buildParams(<< psbt, extract >>))

\* bitcoinclient.cpp:336-340
fundRawTransaction(hexString, options) ==
    LET params0 == buildParams(<< hexString >>)
        params1 == IF ~isNull(options) THEN append(params0, options) ELSE params0
    IN  Call("fundrawtransaction", params1)

\* bitcoinclient.cpp:342-344
getRawTransaction(txid, verbose) == Call("getrawtransaction", buildParams(<< txid, verbose >>))

\* bitcoinclient.cpp:346-350
joinPsbts(psbts) ==
    LET psbtsArray0 == Null
        psbtsArray1 == appendAll(psbtsArray0, psbts.a)
    IN  Call("joinpsbts", buildParams(<< psbtsArray1 >>))

\* bitcoinclient.cpp:352-354
sendRawTransaction(hexString, allowhighfees) ==
    Call("sendrawtransaction", buildParams(<< hexString, allowhighfees >>))

\* bitcoinclient.cpp:356-362
signRawTransactionWithKey(hexString, privKeys, prevTxs) ==
    LET keysArray0 == Null
        keysArray1 == appendAll(keysArray0, privKeys.a)
        params0 == buildParams(<< hexString, keysArray1 >>)
        params1 == IF ~isNull(prevTxs) THEN append(params0, prevTxs) ELSE params0
    IN  Call("signrawtransactionwithkey", params1)

\* bitcoinclient.cpp:364-368
testMempoolAccept(rawTxns, allowhighfees) ==
    LET txnArray0 == Null
        txnArray1 == appendAll(txnArray0, rawTxns.a)
    IN  Call("testmempoolaccept", buildParams(<< txnArray1, allowhighfees >>))

\* bitcoinclient.cpp:370-374
utxoUpdatePsbt(psbt, descriptors) ==
    LET params0 == buildParams(<< psbt >>)
        params1 == IF ~isNull(descriptors) THEN append(params0, descriptors) ELSE params0
    IN  Call("utxoupdatepsbt", params1)

\* bitcoinclient.cpp:376-380
createMultiSig(nRequired, keys) ==
    LET keysArray0 == Null
        keysArray1 == appendAll(keysArray0, keys.a)
    IN  Call("createmultisig", buildParams(<< nRequired, keysArray1 >>))

\* bitcoinclient.cpp:382-386
deriveAddresses(descriptor, range) ==
    LET params0 == buildParams(<< descriptor >>)
        params1 == IF ~isNull(range) THEN append(params0, range) ELSE params0
    IN  Call("deriveaddresses", params1)

\* bitcoinclient.cpp:388-390
estimateSmartFee(confTarget, estimateMode) ==
    Call("estimatesmartfee", buildParams(<< confTarget, estimateMode >>))

\* bitcoinclient.cpp:392-394
getDescriptorInfo(descriptor) == Call("getdescriptorinfo", buildParams(<< descriptor >>))

\* bitcoinclient.cpp:396-398
getIndexInfo == Call("getindexinfo", DefaultParams)

\* bitcoinclient.cpp:400-402
signMessageWithPrivKey(privKey, message) ==
    Call("signmessagewithprivkey", buildParams(<< privKey, message >>))

\* bitcoinclient.cpp:404-406
validateAddress(address) == Call("validateaddress", buildParams(<< address >>))

\* bitcoinclient.cpp:408-410
verifyMessage(address, signature, message) ==
    Call("verifymessage", buildParams(<< address, signature, message >>))

\* bitcoinclient.cpp:412-414
abandonTransaction(txid) == Call("abandontransaction", buildParams(<< txid >>))

\* bitcoinclient.cpp:416-418
abortRescan == Call("abortrescan", DefaultParams)

\* bitcoinclient.cpp:420-426
addMultiSigAddress(nRequired, keys, label) ==
    LET keysArray0 == Null
        keysArray1 == appendAll(keysArray0, keys.a)
        params0 == buildParams(<< nRequired, keysArray1 >>)
        params1 == IF ~empty(label) THEN append(params0, label) ELSE params0
    IN  Call("addmultisigaddress", params1)

\* bitcoinclient.cpp:428-430
backupWallet(destination) == Call("backupwallet", buildParams(<< destination >>))

\* bitcoinclient.cpp:432-436
bumpFee(txid, options) ==
    LET params0 == buildParams(<< txid >>)
        params1 == IF ~isNull(options) THEN append(params0, options) ELSE params0
    IN  Call("bumpfee", params1)

\* bitcoinclient.cpp:438-440
createWallet(walletName, disablePrivateKeys, blank) ==
    Call("createwallet", buildParams(<< walletName, disablePrivateKeys, blank >>))

\* bitcoinclient.cpp:442-444
dumpPrivKey(address) == Call("dumpprivkey", buildParams(<< address >>))

\* bitcoinclient.cpp:446-448
dumpWallet(filename) == Call("dumpwallet", buildParams(<< filename >>))

\* bitcoinclient.cpp:450-452
encryptWallet(passphrase) == Call("encryptwallet", buildParams(<< passphrase >>))

\* bitcoinclient.cpp:454-456
getAddressesByLabel(label) == Call("getaddressesbylabel", buildParams(<< label >>))

\* bitcoinclient.cpp:458-460
getAddressInfo(address) == Call("getaddressinfo", buildParams(<< address >>))

\* bitcoinclient.cpp:462-464
getBalance(dummy, minconf, includeWatchonly) ==
    Call("getbalance", buildParams(<< dummy, minconf, includeWatchonly >>))

\* bitcoinclient.cpp:466-468
getBalances == Call("getbalances", DefaultParams)

\* bitcoinclient.cpp:470-472
getNewAddress(label) ==
    Call("getnewaddress", IF empty(label) THEN Null ELSE buildParams(<< label >>))

\* bitcoinclient.cpp:474-476
getRawChangeAddress(addressType) ==
    Call("getrawchangeaddress", IF empty(addressType) THEN Null ELSE buildParams(<< addressType >>))

\* bitcoinclient.cpp:478-480
getReceivedByAddress(address, minconf) ==
    Call("getreceivedbyaddress", buildParams(<< address, minconf >>))

\* bitcoinclient.cpp:482-484
getReceivedByLabel(label, minconf) == Call("getreceivedbylabel", buildParams(<< label, minconf >>))

\* bitcoinclient.cpp:486-488
getTransaction(txid, includeWatchonly) ==
    Call("gettransaction", buildParams(<< txid, includeWatchonly >>))

\* bitcoinclient.cpp:490-492
getUnconfirmedBalance == Call("getunconfirmedbalance", DefaultParams)

\* bitcoinclient.cpp:494-496
getWalletInfo == Call("getwalletinfo", DefaultParams)

\* importAddress leaving rescan out along with an empty label.
importAddress_rescanWithLabel(address, label, rescan) ==
    LET params0 == buildParams(<< address >>)
        params1 == IF ~empty(label) THEN append(append(params0, label), rescan) ELSE params0
    IN  Call("importaddress", params1)

\* bitcoinclient.cpp:498-503
importAddress(address, label, rescan) ==
    LET params0 == buildParams(<< address >>)
        params1 == IF ~empty(label) THEN append(params0, label) ELSE params0
        params2 == append(params1, rescan)
    IN  Call("importaddress", params2)

\* bitcoinclient.cpp:505-507
importDescriptors(requests) == Call("importdescriptors", buildParams(<< requests >>))

\* bitcoinclient.cpp:509-513
importMulti(requests, options) ==
    LET params0 == buildParams(<< requests >>)
        params1 == IF ~isNull(options) THEN append(params0, options) ELSE params0
    IN  Call("importmulti", params1)

\* bitcoinclient.cpp:515-520
importPrivKey(privKey, label, rescan) ==
    LET params0 == buildParams(<< privKey >>)
        params1 == IF ~empty(label) THEN append(params0, label) ELSE params0
        params2 == append(params1, rescan)
    IN  Call("importprivkey", params2)

\* bitcoinclient.cpp:522-524
importPrunedFunds(rawTransaction, txOutProof) ==
    Call("importprunedfunds", buildParams(<< rawTransaction, txOutProof >>))

\* bitcoinclient.cpp:526-531
importPubKey(pubKey, label, rescan) ==
    LET params0 == buildParams(<< pubKey >>)
        params1 == IF ~empty(label) THEN append(params0, label) ELSE params0
        params2 == append(params1, rescan)
    IN  Call("importpubkey", params2)

\* bitcoinclient.cpp:533-535
importWallet(filename) == Call("importwallet", buildParams(<< filename >>))

\* bitcoinclient.cpp:537-539
keyPoolRefill(newSize) == Call("keypoolrefill", buildParams(<< newSize >>))

\* bitcoinclient.cpp:541-543
listAddressGroupings == Call("listaddressgroupings", DefaultParams)

\* bitcoinclient.cpp:545-547
listLabels == Call("listlabels", DefaultParams)

\* bitcoinclient.cpp:549-551
listLockUnspent == Call("listlockunspent", DefaultParams)

\* bitcoinclient.cpp:553-555
listReceivedByAddress(minconf, includeEmpty, includeWatchonly) ==
    Call("listreceivedbyaddress", buildParams(<< minconf, includeEmpty, includeWatchonly >>))

\* bitcoinclient.cpp:557-559
listReceivedByLabel(minconf, includeEmpty, includeWatchonly) ==
    Call("listreceivedbylabel", buildParams(<< minconf, includeEmpty, includeWatchonly >>))

\* bitcoinclient.cpp:561-567
listSinceBlock(blockHash, targetConfirmations, includeWatchonly) ==
    LET params0 == Null
        params1 == IF ~empty(blockHash) THEN append(params0, blockHash) ELSE params0
        params2 == append(params1, targetConfirmations)
        params3 == append(params2, includeWatchonly)
    IN  Call("listsinceblock", params3)

\* bitcoinclient.cpp:569-576
listTransactions(label, count, skip, includeWatchonly) ==
    LET params0 == Null
        params1 == IF ~empty(label) THEN append(params0, label) ELSE params0
        params2 == append(params1, count)
        params3 == append(params2, skip)
        params4 == append(params3, includeWatchonly)
    IN  Call("listtransactions", params4)

\* bitcoinclient.cpp:578-582
listUnspent(minconf, maxconf, addresses, includeUnsafe) ==
    LET addrArray0 == Null
        addrArray1 == appendAll(addrArray0, addresses.a)
    IN  Call("listunspent", buildParams(<< minconf, maxconf, addrArray1, includeUnsafe >>))

\* bitcoinclient.cpp:584-586
listWalletDir == Call("listwalletdir", DefaultParams)

\* bitcoinclient.cpp:588-590
listWallets == Call("listwallets", DefaultParams)

\* bitcoinclient.cpp:592-594
loadWallet(walletName) == Call("loadwallet", buildParams(<< walletName >>))

\* bitcoinclient.cpp:596-600
lockUnspent(unlock, transactions) ==
    LET params0 == buildParams(<< unlock >>)
        params1 == IF ~isNull(transactions) THEN append(params0, transactions) ELSE params0
    IN  Call("lockunspent", params1)

\* bitcoinclient.cpp:602-606
psbtBumpFee(txid, options) ==
    LET params0 == buildParams(<< txid >>)
        params1 == IF ~isNull(options) THEN append(params0, options) ELSE params0
    IN  Call("psbtbumpfee", params1)

\* bitcoinclient.cpp:608-610
removePrunedFunds(txid) == Call("removeprunedfunds", buildParams(<< txid >>))

\* bitcoinclient.cpp:612-617
rescanBlockchain(startHeight, stopHeight) ==
    LET params0 == Null
        params1 == IF startHeight.n > 0 THEN append(params0, startHeight) ELSE params0
        params2 == IF stopHeight.n > 0 THEN append(params1, stopHeight) ELSE params1
    IN  Call("rescanblockchain", params2)

\* bitcoinclient.cpp:619-621
send(outputs, confTarget, estimateMode, replaceable) ==
    Call("send", buildParams(<< outputs, confTarget, estimateMode, replaceable >>))

\* bitcoinclient.cpp:623-635
sendMany(dummy, amounts, minconf, comment, subtractFeeFrom) ==
    LET amountsObj0 == Null
        amountsObj1 == setAll(amountsObj0, amounts.o)
        params0 == buildParams(<< dummy, amountsObj1, minconf >>)
        params1 == IF ~empty(comment) THEN append(params0, comment) ELSE params0
        feeArray0 == Null
        feeArray1 == appendAll(feeArray0, subtractFeeFrom.a)
        params2 == append(params1, feeArray1)
    IN  Call("sendmany", params2)

\* bitcoinclient.cpp:637-643
sendToAddress(address, amount, comment, commentTo, subtractFeeFromAmount) ==
    LET params0 == buildParams(<< address, amount >>)
        params1 == IF ~empty(comment) THEN append(params0, comment) ELSE params0
        params2 == IF ~empty(commentTo) THEN append(params1, commentTo) ELSE params1
        params3 == append(params2, subtractFeeFromAmount)
    IN  Call("sendtoaddress", params3)

\* bitcoinclient.cpp:645-650
setHdSeed(seed, rescan) ==
    LET params0 == Null
        params1 == IF ~empty(seed) THEN append(params0, seed) ELSE params0
        params2 == append(params1, rescan)
    IN  Call("sethdseed", params2)

\* bitcoinclient.cpp:652-654
setLabel(address, label) == Call("setlabel", buildParams(<< address, label >>))

\* bitcoinclient.cpp:656-658
setTxFee(amount) == Call("settxfee", buildParams(<< amount >>))

\* bitcoinclient.cpp:660-662
setWalletFlag(flag, value) == Call("setwalletflag", buildParams(<< flag, value >>))

\* bitcoinclient.cpp:664-666
signMessage(address, message) == Call("signmessage", buildParams(<< address, message >>))

\* bitcoinclient.cpp:668-672
signRawTransactionWithWallet(hexString, prevTxs) ==
    LET params0 == buildParams(<< hexString >>)
        params1 == IF ~isNull(prevTxs) THEN append(params0, prevTxs) ELSE params0
    IN  Call("signrawtransactionwithwallet", params1)

\* bitcoinclient.cpp:674-676
unloadWallet(walletName) ==
    Call("unloadwallet", IF empty(walletName) THEN Null ELSE buildParams(<< walletName >>))

\* bitcoinclient.cpp:678-680
upgradeWallet(walletName) ==
    Call("upgradewallet", IF empty(walletName) THEN Null ELSE buildParams(<< walletName >>))

\* bitcoinclient.cpp:682-692
walletCreateFundedPsbt(inputs, outputs, locktime, options) ==
    LET inputsArray0 == Null
        inputsArray1 == appendAll(inputsArray0, inputs.a)
        outputsObj0 == Null
        outputsObj1 == setAll(outputsObj0, outputs.o)
        params0 == buildParams(<< inputsArray1, outputsObj1, locktime >>)
        params1 == IF ~isNull(options) THEN append(params0, options) ELSE params0
    IN  Call("walletcreatefundedpsbt", params1)

\* bitcoinclient.cpp:694-696
walletLock == Call("walletlock", DefaultParams)

\* bitcoinclient.cpp:698-700
walletPassphrase(passphrase, timeout) ==
    Call("walletpassphrase", buildParams(<< passphrase, timeout >>))

\* bitcoinclient.cpp:702-704
walletPassphraseChange(oldPassphrase, newPassphrase) ==
    Call("walletpassphrasechange", buildParams(<< oldPassphrase, newPassphrase >>))

\* bitcoinclient.cpp:706-708
walletProcessPsbt(psbt, sign, sighashType, bip32derivs) ==
    Call("walletprocesspsbt", buildParams(<< psbt, sign, sighashType, bip32derivs >>))

Req(t) == [ctype |-> t, optional |-> FALSE, default |-> Null]

Opt(t, d) == [ctype |-> t, optional |-> TRUE, default |-> d]

\* The declared parameters of every operation, in order: C++ type, whether the
\* declaration gives a default argument, and that default (bitcoinclient.hpp).
Declared(op) ==
    CASE op = "getBestBlockHash" -> <<>>
      [] op = "getBlock" -> << Req("string"), Opt("bool", BoolV(TRUE)) >>
      [] op = "getBlockchainInfo" -> <<>>
      [] op = "getBlockCount" -> <<>>
      [] op = "getBlockFilter" -> << Req("string"), Req("string") >>
      [] op = "getBlockHash" -> << Req("int") >>
      [] op = "getBlockHeader" -> << Req("string"), Opt("bool", BoolV(TRUE)) >>
      [] op = "getBlockStats" -> << Req("string"), Opt("vector<string>", ArrV(<<>>)) >>
      [] op = "getChainTips" -> <<>>
      [] op = "getChainTxStats" -> << Opt("int", IntV(0)), Opt("string", StrV("")) >>
      [] op = "getDifficulty" -> <<>>
      [] op = "getMempoolAncestors" -> << Req("string"), Opt("bool", BoolV(FALSE)) >>
      [] op = "getMempoolDescendants" -> << Req("string"), Opt("bool", BoolV(FALSE)) >>
      [] op = "getMempoolEntry" -> << Req("string") >>
      [] op = "getMempoolInfo" -> <<>>
      [] op = "getRawMempool" -> << Opt("bool", BoolV(FALSE)) >>
      [] op = "getTxOut" -> << Req("string"), Req("int"), Opt("bool", BoolV(TRUE)) >>
      [] op = "getTxOutProof" -> << Req("vector<string>"), Opt("string", StrV("")) >>
      [] op = "getTxOutSetInfo" -> <<>>
      [] op = "preciousBlock" -> << Req("string") >>
      [] op = "pruneBlockchain" -> << Req("int") >>
      [] op = "saveMempool" -> <<>>
      [] op = "scanTxOutSet" -> << Req("vector<string>") >>
      [] op = "verifyChain" -> << Opt("int", IntV(3)), Opt("int", IntV(6)) >>
      [] op = "verifyTxOutProof" -> << Req("string") >>
      [] op = "getMemoryInfo" -> <<>>
      [] op = "getRpcInfo" -> <<>>
      [] op = "help" -> << Opt("string", StrV("")) >>
      [] op = "logging" -> << Req("vector<string>"), Req("vector<string>") >>
      [] op = "stop" -> <<>>
      [] op = "uptime" -> <<>>
      [] op = "generateBlock" -> << Req("string"), Req("vector<string>") >>
      [] op = "generateToAddress" -> << Req("int"), Req("string") >>
      [] op = "generateToDescriptor" -> << Req("int"), Req("string") >>
      [] op = "getBlockTemplate" -> << Opt("string", StrV("")) >>
      [] op = "getMiningInfo" -> <<>>
      [] op = "getNetworkHashPS" -> << Opt("int", IntV(120)), Opt("int", IntV(-1)) >>
      [] op = "prioritiseTransaction" -> << Req("string"), Req("double") >>
      [] op = "submitBlock" -> << Req("string"), Opt("string", StrV("")) >>
      [] op = "submitHeader" -> << Req("string") >>
      [] op = "addNode" -> << Req("string"), Req("string") >>
      [] op = "clearBanned" -> <<>>
      [] op = "disconnectNode" -> << Req("string") >>
      [] op = "getAddedNodeInfo" -> << Opt("string", StrV("")) >>
      [] op = "getConnectionCount" -> <<>>
      [] op = "getNetTotals" -> <<>>
      [] op = "getNetworkInfo" -> <<>>
      [] op = "getNodeAddresses" -> << Opt("int", IntV(1)) >>
      [] op = "getPeerInfo" -> <<>>
      [] op = "listBanned" -> <<>>
      [] op = "ping" -> <<>>
      [] op = "setBan" ->
            << Req("string"), Req("string"), Opt("int", IntV(0)), Opt("bool", BoolV(FALSE)) >>
      [] op = "setNetworkActive" -> << Req("bool") >>
      [] op = "analyzePsbt" -> << Req("string") >>
      [] op = "combinePsbt" -> << Req("vector<string>") >>
      [] op = "combineRawTransaction" -> << Req("vector<string>") >>
      [] op = "convertToPsbt" ->
            << Req("string"), Opt("bool", BoolV(FALSE)), Opt("bool", BoolV(TRUE)) >>
      [] op = "createPsbt" -> << Req("vector<Json::Value>"), Req("map<string,double>") >>
      [] op = "createRawTransaction" -> << Req("vector<Json::Value>"), Req("map<string,double>") >>
      [] op = "decodePsbt" -> << Req("string") >>
      [] op = "decodeRawTransaction" -> << Req("string"), Opt("bool", BoolV(TRUE)) >>
      [] op = "decodeScript" -> << Req("string") >>
      [] op = "finalizePsbt" -> << Req("string"), Opt("bool", BoolV(TRUE)) >>
      [] op = "fundRawTransaction" -> << Req("string"), Opt("Json::Value", Null) >>
      [] op = "getRawTransaction" -> << Req("string"), Opt("bool", BoolV(FALSE)) >>
      [] op = "joinPsbts" -> << Req("vector<string>") >>
      [] op = "sendRawTransaction" -> << Req("string"), Opt("bool", BoolV(FALSE)) >>
      [] op = "signRawTransactionWithKey" ->
            << Req("string"), Req("vector<string>"), Opt("Json::Value", Null) >>
      [] op = "testMempoolAccept" -> << Req("vector<string>"), Opt("bool", BoolV(FALSE)) >>
      [] op = "utxoUpdatePsbt" -> << Req("string"), Opt("Json::Value", Null) >>
      [] op = "createMultiSig" -> << Req("int"), Req("vector<string>") >>
      [] op = "deriveAddresses" -> << Req("string"), Opt("Json::Value", Null) >>
      [] op = "estimateSmartFee" -> << Req("int"), Opt("string", StrV("CONSERVATIVE")) >>
      [] op = "getDescriptorInfo" -> << Req("string") >>
      [] op = "getIndexInfo" -> <<>>
      [] op = "signMessageWithPrivKey" -> << Req("string"), Req("string") >>
      [] op = "validateAddress" -> << Req("string") >>
      [] op = "verifyMessage" -> << Req("string"), Req("string"), Req("string") >>
      [] op = "abandonTransaction" -> << Req("string") >>
      [] op = "abortRescan" -> <<>>
      [] op = "addMultiSigAddress" ->
            << Req("int"), Req("vector<string>"), Opt("string", StrV("")) >>
      [] op = "backupWallet" -> << Req("string") >>
      [] op = "bumpFee" -> << Req("string"), Opt("Json::Value", Null) >>
      [] op = "createWallet" ->
            << Req("string"), Opt("bool", BoolV(FALSE)), Opt("bool", BoolV(FALSE)) >>
      [] op = "dumpPrivKey" -> << Req("string") >>
      [] op = "dumpWallet" -> << Req("string") >>
      [] op = "encryptWallet" -> << Req("string") >>
      [] op = "getAddressesByLabel" -> << Req("string") >>
      [] op = "getAddressInfo" -> << Req("string") >>
      [] op = "getBalance" ->
            << Opt("string", StrV("*")), Opt("int", IntV(0)), Opt("bool", BoolV(FALSE)) >>
      [] op = "getBalances" -> <<>>
      [] op = "getNewAddress" -> << Opt("string", StrV("")) >>
      [] op = "getRawChangeAddress" -> << Opt("string", StrV("")) >>
      [] op = "getReceivedByAddress" -> << Req("string"), Opt("int", IntV(1)) >>
      [] op = "getReceivedByLabel" -> << Req("string"), Opt("int", IntV(1)) >>
      [] op = "getTransaction" -> << Req("string"), Opt("bool", BoolV(FALSE)) >>
      [] op = "getUnconfirmedBalance" -> <<>>
      [] op = "getWalletInfo" -> <<>>
      [] op = "importAddress" ->
            << Req("string"), Opt("string", StrV("")), Opt("bool", BoolV(TRUE)) >>
      [] op = "importDescriptors" -> << Req("Json::Value") >>
      [] op = "importMulti" -> << Req("Json::Value"), Opt("Json::Value", Null) >>
      [] op = "importPrivKey" ->
            << Req("string"), Opt("string", StrV("")), Opt("bool", BoolV(TRUE)) >>
      [] op = "importPrunedFunds" -> << Req("string"), Req("string") >>
      [] op = "importPubKey" ->
            << Req("string"), Opt("string", StrV("")), Opt("bool", BoolV(TRUE)) >>
      [] op = "importWallet" -> << Req("string") >>
      [] op = "keyPoolRefill" -> << Opt("int", IntV(100)) >>
      [] op = "listAddressGroupings" -> <<>>
      [] op = "listLabels" -> <<>>
      [] op = "listLockUnspent" -> <<>>
      [] op = "listReceivedByAddress" ->
            << Opt("int", IntV(1)), Opt("bool", BoolV(FALSE)), Opt("bool", BoolV(FALSE)) >>
      [] op = "listReceivedByLabel" ->
            << Opt("int", IntV(1)), Opt("bool", BoolV(FALSE)), Opt("bool", BoolV(FALSE)) >>
      [] op = "listSinceBlock" ->
            << Opt("string", StrV("")), Opt("int", IntV(1)), Opt("bool", BoolV(FALSE)) >>
      [] op = "listTransactions" ->
            << Opt("string", StrV("*")), Opt("int", IntV(10)), Opt("int", IntV(0)),
               Opt("bool", BoolV(FALSE)) >>
      [] op = "listUnspent" ->
            << Opt("int", IntV(1)), Opt("int", IntV(9999999)), Opt("vector<string>", ArrV(<<>>)),
               Opt("bool", BoolV(TRUE)) >>
      [] op = "listWalletDir" -> <<>>
      [] op = "listWallets" -> <<>>
      [] op = "loadWallet" -> << Req("string") >>
      [] op = "lockUnspent" -> << Req("bool"), Opt("Json::Value", Null) >>
      [] op = "psbtBumpFee" -> << Req("string"), Opt("Json::Value", Null) >>
      [] op = "removePrunedFunds" -> << Req("string") >>
      [] op = "rescanBlockchain" -> << Opt("int", IntV(0)), Opt("int", IntV(-1)) >>
      [] op = "send" ->
            << Req("Json::Value"), Opt("int", IntV(6)), Opt("string", StrV("UNSET")),
               Opt("bool", BoolV(FALSE)) >>
      [] op = "sendMany" ->
            << Req("string"), Req("map<string,double>"), Opt("int", IntV(1)),
               Opt("string", StrV("")), Opt("vector<string>", ArrV(<<>>)) >>
      [] op = "sendToAddress" ->
            << Req("string"), Req("double"), Opt("string", StrV("")), Opt("string", StrV("")),
               Opt("bool", BoolV(FALSE)) >>
      [] op = "setHdSeed" -> << Opt("string", StrV("")), Opt("bool", BoolV(TRUE)) >>
      [] op = "setLabel" -> << Req("string"), Req("string") >>
      [] op = "setTxFee" -> << Req("double") >>
      [] op = "setWalletFlag" -> << Req("string"), Req("bool") >>
      [] op = "signMessage" -> << Req("string"), Req("string") >>
      [] op = "signRawTransactionWithWallet" -> << Req("string"), Opt("Json::Value", Null) >>
      [] op = "unloadWallet" -> << Opt("string", StrV("")) >>
      [] op = "upgradeWallet" -> << Opt("string", StrV("")) >>
      [] op = "walletCreateFundedPsbt" ->
            << Req("vector<Json::Value>"), Req("map<string,double>"), Opt("int", IntV(0)),
               Opt("Json::Value", Null) >>
      [] op = "walletLock" -> <<>>
      [] op = "walletPassphrase" -> << Req("string"), Req("int") >>
      [] op = "walletPassphraseChange" -> << Req("string"), Req("string") >>
      [] op = "walletProcessPsbt" ->
            << Req("string"), Opt("bool", BoolV(TRUE)), Opt("bool", BoolV(TRUE)),
               Opt("bool", BoolV(TRUE)) >>

\* The call each operation makes, given its arguments in declared order.
Wrapper(op, a) ==
    CASE op = "getBestBlockHash" -> getBestBlockHash
      [] op = "getBlock" -> getBlock(a[1], a[2])
      [] op = "getBlockchainInfo" -> getBlockchainInfo
      [] op = "getBlockCount" -> getBlockCount
      [] op = "getBlockFilter" -> getBlockFilter(a[1], a[2])
      [] op = "getBlockHash" -> getBlockHash(a[1])
      [] op = "getBlockHeader" -> getBlockHeader(a[1], a[2])
      [] op = "getBlockStats" -> getBlockStats(a[1], a[2])
      [] op = "getChainTips" -> getChainTips
      [] op = "getChainTxStats" -> getChainTxStats(a[1], a[2])
      [] op = "getDifficulty" -> getDifficulty
      [] op = "getMempoolAncestors" -> getMempoolAncestors(a[1], a[2])
      [] op = "getMempoolDescendants" -> getMempoolDescendants(a[1], a[2])
      [] op = "getMempoolEntry" -> getMempoolEntry(a[1])
      [] op = "getMempoolInfo" -> getMempoolInfo
      [] op = "getRawMempool" -> getRawMempool(a[1])
      [] op = "getTxOut" -> getTxOut(a[1], a[2], a[3])
      [] op = "getTxOutProof" -> getTxOutProof(a[1], a[2])
      [] op = "getTxOutSetInfo" -> getTxOutSetInfo
      [] op = "preciousBlock" -> preciousBlock(a[1])
      [] op = "pruneBlockchain" -> pruneBlockchain(a[1])
      [] op = "saveMempool" -> saveMempool
      [] op = "scanTxOutSet" -> scanTxOutSet(a[1])
      [] op = "verifyChain" -> verifyChain(a[1], a[2])
      [] op = "verifyTxOutProof" -> verifyTxOutProof(a[1])
      [] op = "getMemoryInfo" -> getMemoryInfo
      [] op = "getRpcInfo" -> getRpcInfo
      [] op = "help" -> help(a[1])
      [] op = "logging" -> logging(a[1], a[2])
      [] op = "stop" -> stop
      [] op = "uptime" -> uptime
      [] op = "generateBlock" -> generateBlock(a[1], a[2])
      [] op = "generateToAddress" -> generateToAddress(a[1], a[2])
      [] op = "generateToDescriptor" -> generateToDescriptor(a[1], a[2])
      [] op = "getBlockTemplate" -> getBlockTemplate(a[1])
      [] op = "getMiningInfo" -> getMiningInfo
      [] op = "getNetworkHashPS" -> getNetworkHashPS(a[1], a[2])
      [] op = "prioritiseTransaction" -> prioritiseTransaction(a[1], a[2])
      [] op = "submitBlock" -> submitBlock(a[1], a[2])
      [] op = "submitHeader" -> submitHeader(a[1])
      [] op = "addNode" -> addNode(a[1], a[2])
      [] op = "clearBanned" -> clearBanned
      [] op = "disconnectNode" -> disconnectNode(a[1])
      [] op = "getAddedNodeInfo" -> getAddedNodeInfo(a[1])
      [] op = "getConnectionCount" -> getConnectionCount
      [] op = "getNetTotals" -> getNetTotals
      [] op = "getNetworkInfo" -> getNetworkInfo
      [] op = "getNodeAddresses" -> getNodeAddresses(a[1])
      [] op = "getPeerInfo" -> getPeerInfo
      [] op = "listBanned" -> listBanned
      [] op = "ping" -> ping
      [] op = "setBan" -> setBan(a[1], a[2], a[3], a[4])
      [] op = "setNetworkActive" -> setNetworkActive(a[1])
      [] op = "analyzePsbt" -> analyzePsbt(a[1])
      [] op = "combinePsbt" -> combinePsbt(a[1])
      [] op = "combineRawTransaction" -> combineRawTransaction(a[1])
      [] op = "convertToPsbt" -> convertToPsbt(a[1], a[2], a[3])
      [] op = "createPsbt" -> createPsbt(a[1], a[2])
      [] op = "createRawTransaction" -> createRawTransaction(a[1], a[2])
      [] op = "decodePsbt" -> decodePsbt(a[1])
      [] op = "decodeRawTransaction" -> decodeRawTransaction(a[1], a[2])
      [] op = "decodeScript" -> decodeScript(a[1])
      [] op = "finalizePsbt" -> finalizePsbt(a[1], a[2])
      [] op = "fundRawTransaction" -> fundRawTransaction(a[1], a[2])
      [] op = "getRawTransaction" -> getRawTransaction(a[1], a[2])
      [] op = "joinPsbts" -> joinPsbts(a[1])
      [] op = "sendRawTransaction" -> sendRawTransaction(a[1], a[2])
      [] op = "signRawTransactionWithKey" -> signRawTransactionWithKey(a[1], a[2], a[3])
      [] op = "testMempoolAccept" -> testMempoolAccept(a[1], a[2])
      [] op = "utxoUpdatePsbt" -> utxoUpdatePsbt(a[1], a[2])
      [] op = "createMultiSig" -> createMultiSig(a[1], a[2])
      [] op = "deriveAddresses" -> deriveAddresses(a[1], a[2])
      [] op = "estimateSmartFee" -> estimateSmartFee(a[1], a[2])
      [] op = "getDescriptorInfo" -> getDescriptorInfo(a[1])
      [] op = "getIndexInfo" -> getIndexInfo
      [] op = "signMessageWithPrivKey" -> signMessageWithPrivKey(a[1], a[2])
      [] op = "validateAddress" -> validateAddress(a[1])
      [] op = "verifyMessage" -> verifyMessage(a[1], a[2], a[3])
      [] op = "abandonTransaction" -> abandonTransaction(a[1])
      [] op = "abortRescan" -> abortRescan
      [] op = "addMultiSigAddress" -> addMultiSigAddress(a[1], a[2], a[3])
      [] op = "backupWallet" -> backupWallet(a[1])
      [] op = "bumpFee" -> bumpFee(a[1], a[2])
      [] op = "createWallet" -> createWallet(a[1], a[2], a[3])
      [] op = "dumpPrivKey" -> dumpPrivKey(a[1])
      [] op = "dumpWallet" -> dumpWallet(a[1])
      [] op = "encryptWallet" -> encryptWallet(a[1])
      [] op = "getAddressesByLabel" -> getAddressesByLabel(a[1])
      [] op = "getAddressInfo" -> getAddressInfo(a[1])
      [] op = "getBalance" -> getBalance(a[1], a[2], a[3])
      [] op = "getBalances" -> getBalances
      [] op = "getNewAddress" -> getNewAddress(a[1])
      [] op = "getRawChangeAddress" -> getRawChangeAddress(a[1])
      [] op = "getReceivedByAddress" -> getReceivedByAddress(a[1], a[2])
      [] op = "getReceivedByLabel" -> getReceivedByLabel(a[1], a[2])
      [] op = "getTransaction" -> getTransaction(a[1], a[2])
      [] op = "getUnconfirmedBalance" -> getUnconfirmedBalance
      [] op = "getWalletInfo" -> getWalletInfo
      [] op = "importAddress" -> importAddress(a[1], a[2], a[3])
      [] op = "importDescriptors" -> importDescriptors(a[1])
      [] op = "importMulti" -> importMulti(a[1], a[2])
      [] op = "importPrivKey" -> importPrivKey(a[1], a[2], a[3])
      [] op = "importPrunedFunds" -> importPrunedFunds(a[1], a[2])
      [] op = "importPubKey" -> importPubKey(a[1], a[2], a[3])
      [] op = "importWallet" -> importWallet(a[1])
      [] op = "keyPoolRefill" -> keyPoolRefill(a[1])
      [] op = "listAddressGroupings" -> listAddressGroupings
      [] op = "listLabels" -> listLabels
      [] op = "listLockUnspent" -> listLockUnspent
      [] op = "listReceivedByAddress" -> listReceivedByAddress(a[1], a[2], a[3])
      [] op = "listReceivedByLabel" -> listReceivedByLabel(a[1], a[2], a[3])
      [] op = "listSinceBlock" -> listSinceBlock(a[1], a[2], a[3])
      [] op = "listTransactions" -> listTransactions(a[1], a[2], a[3], a[4])
      [] op = "listUnspent" -> listUnspent(a[1], a[2], a[3], a[4])
      [] op = "listWalletDir" -> listWalletDir
      [] op = "listWallets" -> listWallets
      [] op = "loadWallet" -> loadWallet(a[1])
      [] op = "lockUnspent" -> lockUnspent(a[1], a[2])
      [] op = "psbtBumpFee" -> psbtBumpFee(a[1], a[2])
      [] op = "removePrunedFunds" -> removePrunedFunds(a[1])
      [] op = "rescanBlockchain" -> rescanBlockchain(a[1], a[2])
      [] op = "send" -> send(a[1], a[2], a[3], a[4])
      [] op = "sendMany" -> sendMany(a[1], a[2], a[3], a[4], a[5])
      [] op = "sendToAddress" -> sendToAddress(a[1], a[2], a[3], a[4], a[5])
      [] op = "setHdSeed" -> setHdSeed(a[1], a[2])
      [] op = "setLabel" -> setLabel(a[1], a[2])
      [] op = "setTxFee" -> setTxFee(a[1])
      [] op = "setWalletFlag" -> setWalletFlag(a[1], a[2])
      [] op = "signMessage" -> signMessage(a[1], a[2])
      [] op = "signRawTransactionWithWallet" -> signRawTransactionWithWallet(a[1], a[2])
      [] op = "unloadWallet" -> unloadWallet(a[1])
      [] op = "upgradeWallet" -> upgradeWallet(a[1])
      [] op = "walletCreateFundedPsbt" -> walletCreateFundedPsbt(a[1], a[2], a[3], a[4])
      [] op = "walletLock" -> walletLock
      [] op = "walletPassphrase" -> walletPassphrase(a[1], a[2])
      [] op = "walletPassphraseChange" -> walletPassphraseChange(a[1], a[2])
      [] op = "walletProcessPsbt" -> walletProcessPsbt(a[1], a[2], a[3], a[4])

Operations ==
    { "getBestBlockHash", "getBlock", "getBlockchainInfo", "getBlockCount",
      "getBlockFilter", "getBlockHash", "getBlockHeader", "getBlockStats", "getChainTips",
      "getChainTxStats", "getDifficulty", "getMempoolAncestors", "getMempoolDescendants",
      "getMempoolEntry", "getMempoolInfo", "getRawMempool", "getTxOut", "getTxOutProof",
      "getTxOutSetInfo", "preciousBlock", "pruneBlockchain", "saveMempool", "scanTxOutSet",
      "verifyChain", "verifyTxOutProof", "getMemoryInfo", "getRpcInfo", "help", "logging",
      "stop", "uptime", "generateBlock", "generateToAddress", "generateToDescriptor",
      "getBlockTemplate", "getMiningInfo", "getNetworkHashPS", "prioritiseTransaction",
      "submitBlock", "submitHeader", "addNode", "clearBanned", "disconnectNode",
      "getAddedNodeInfo", "getConnectionCount", "getNetTotals", "getNetworkInfo",
      "getNodeAddresses", "getPeerInfo", "listBanned", "ping", "setBan",
      "setNetworkActive", "analyzePsbt", "combinePsbt", "combineRawTransaction",
      "convertToPsbt", "createPsbt", "createRawTransaction", "decodePsbt",
      "decodeRawTransaction", "decodeScript", "finalizePsbt", "fundRawTransaction",
      "getRawTransaction", "joinPsbts", "sendRawTransaction", "signRawTransactionWithKey",
      "testMempoolAccept", "utxoUpdatePsbt", "createMultiSig", "deriveAddresses",
      "estimateSmartFee", "getDescriptorInfo", "getIndexInfo", "signMessageWithPrivKey",
      "validateAddress", "verifyMessage", "abandonTransaction", "abortRescan",
      "addMultiSigAddress", "backupWallet", "bumpFee", "createWallet", "dumpPrivKey",
      "dumpWallet", "encryptWallet", "getAddressesByLabel", "getAddressInfo", "getBalance",
      "getBalances", "getNewAddress", "getRawChangeAddress", "getReceivedByAddress",
      "getReceivedByLabel", "getTransaction", "getUnconfirmedBalance", "getWalletInfo",
      "importAddress", "importDescriptors", "importMulti", "importPrivKey",
      "importPrunedFunds", "importPubKey", "importWallet", "keyPoolRefill",
      "listAddressGroupings", "listLabels", "listLockUnspent", "listReceivedByAddress",
      "listReceivedByLabel", "listSinceBlock", "listTransactions", "listUnspent",
      "listWalletDir", "listWallets", "loadWallet", "lockUnspent", "psbtBumpFee",
      "removePrunedFunds", "rescanBlockchain", "send", "sendMany", "sendToAddress",
      "setHdSeed", "setLabel", "setTxFee", "setWalletFlag", "signMessage",
      "signRawTransactionWithWallet", "unloadWallet", "upgradeWallet",
      "walletCreateFundedPsbt", "walletLock", "walletPassphrase", "walletPassphraseChange",
      "walletProcessPsbt" }
\* The generic entry point, called directly: sendRequest(method, params = Json::Value()).
GenericDeclared == << Req("string"), Opt("Json::Value", DefaultParams) >>

DeclaredOf(op) == IF op = "sendRequest" THEN GenericDeclared ELSE Declared(op)

CallOf(op, a) == IF op = "sendRequest" THEN Call(a[1].s, a[2]) ELSE Wrapper(op, a)

(***************************************************************************)
(* The arguments the callers of the model pass.                            *)
(***************************************************************************)
Outpoint == ObjV([txid |-> StrV("x"), vout |-> IntV(0)])

Amounts == ObjV([addr1 |-> RealV(150000000), addr2 |-> RealV(1)])

ArgDomain(p) ==
    CASE p.ctype = "string" ->
            IF p.optional THEN {StrV(""), StrV("x"), p.default} ELSE {StrV("x")}
      [] p.ctype = "int" ->
            IF p.optional THEN {IntV(0), IntV(1), p.default} ELSE {IntV(1)}
      [] p.ctype = "bool" -> {BoolV(FALSE), BoolV(TRUE)}
      [] p.ctype = "double" -> {RealV(150000000)}
      [] p.ctype = "vector<string>" -> {ArrV(<<>>), ArrV(<< StrV("a"), StrV("b") >>)}
      [] p.ctype = "vector<Json::Value>" -> {ArrV(<<>>), ArrV(<< Outpoint >>)}
      [] p.ctype = "map<string,double>" -> {ObjV(<<>>), Amounts}
      [] p.ctype = "Json::Value" -> {Null, ArrV(<<>>), ArrV(<< Outpoint >>)}

RECURSIVE ArgLists(_)
ArgLists(ps) ==
    IF ps = <<>> THEN {<<>>}
    ELSE {<< x >> \o rest : x \in ArgDomain(Head(ps)), rest \in ArgLists(Tail(ps))}

AllOperations == Operations \cup {"sendRequest"}

\* A sequence that holds a value of every variant.
EveryVariant ==
    ArrV(<< Null, BoolV(TRUE), IntV(-1), RealV(1), StrV("5"), ArrV(<<>>), ObjV(<<>>),
            Outpoint >>)

\* The `params` given to sendRequest when it is called directly.
GenericParams ==
    { Null, BoolV(FALSE), BoolV(TRUE), IntV(0), IntV(-1), IntV(812345), RealV(0),
      RealV(100000000), RealV(150000000), StrV(""), StrV("5"), StrV("abc"), ArrV(<<>>),
      ArrV(<< Outpoint >>), ObjV(<<>>), Amounts,
      ObjV([result |-> IntV(1), error |-> StrV("x")]), EveryVariant }

\* The argument lists the callers pass to an operation.
ArgsOf(op) ==
    IF op = "sendRequest" THEN {<< StrV("x"), v >> : v \in GenericParams}
    ELSE ArgLists(Declared(op))

(***************************************************************************)
(* The call pipeline.                                                      *)
(***************************************************************************)

\* buildRpcRequest taking the correlation id from the call.
buildRpcRequest_idPerCall(method, params) ==
    LET request0 == Null
        request1 == setMember(request0, "jsonrpc", StrV("1.0"))
        request2 == setMember(request1, "id", StrV(method))
        request3 == setMember(request2, "method", StrV(method))
        request4 == setMember(request3, "params", params)
    IN  writeString(request4)

\* BitcoinClient::buildRpcRequest.
buildRpcRequest(method, params) ==
    LET request0 == Null
        request1 == setMember(request0, "jsonrpc", StrV("1.0"))
        request2 == setMember(request1, "id", StrV("Genyleap-Bitcoin-RPC"))
        request3 == setMember(request2, "method", StrV(method))
        request4 == setMember(request3, "params", params)
    IN  writeString(request4)

\* What a function of the pipeline hands back: how it ended ("returned", or
\* "asserted" when a jsoncpp assertion failed), the value returned, the
\* lines it logged and the functions it entered, in order.
Returned(v, logs, entered) ==
    [kind |-> "returned", value |-> v, logs |-> logs, entered |-> entered]

Asserted(logs, entered) ==
    [kind |-> "asserted", value |-> Null, logs |-> logs, entered |-> entered]

LogLine(level, text, arg) == [level |-> level, text |-> text, arg |-> arg]

\* The reader's diagnostic of a text it rejects.
ParseErrors == << Tok("* Line 1, Column 1 Syntax error") >>

\* parseRpcResponse returning the whole parsed envelope, not its `result`.
parseRpcResponse_wholeEnvelope(response) ==
    LET parsed == parseFromStream(response)
        jsonResponse == parsed.value
        entered == << "parseRpcResponse" >>
    IN  IF ~parsed.ok
        THEN Returned(Null,
                      << LogLine("error", "Failed to parse JSON response: {}", ParseErrors) >>,
                      entered)
        ELSE IF ~indexable(jsonResponse) THEN Asserted(<<>>, entered)
        ELSE IF ~isNull(member(jsonResponse, "error"))
        THEN Returned(Null,
                      << LogLine("error", "RPC error: {}",
                                 writeString(member(jsonResponse, "error"))) >>,
                      entered)
        ELSE Returned(jsonResponse, <<>>, entered)

\* parseRpcResponse looking at `result` before `error`.
parseRpcResponse_resultFirst(response) ==
    LET parsed == parseFromStream(response)
        jsonResponse == parsed.value
        entered == << "parseRpcResponse" >>
    IN  IF ~parsed.ok
        THEN Returned(Null,
                      << LogLine("error", "Failed to parse JSON response: {}", ParseErrors) >>,
                      entered)
        ELSE IF ~indexable(jsonResponse) THEN Asserted(<<>>, entered)
        ELSE IF ~isNull(member(jsonResponse, "result"))
        THEN Returned(member(jsonResponse, "result"), <<>>, entered)
        ELSE IF ~isNull(member(jsonResponse, "error"))
        THEN Returned(Null,
                      << LogLine("error", "RPC error: {}",
                                 writeString(member(jsonResponse, "error"))) >>,
                      entered)
        ELSE Returned(Null, <<>>, entered)

\* parseRpcResponse reading `result` with an accessor that asserts the member
\* exists.
parseRpcResponse_requiresResult(response) ==
    LET parsed == parseFromStream(response)
        jsonResponse == parsed.value
        entered == << "parseRpcResponse" >>
    IN  IF ~parsed.ok
        THEN Returned(Null,
                      << LogLine("error", "Failed to parse JSON response: {}", ParseErrors) >>,
                      entered)
        ELSE IF ~indexable(jsonResponse) THEN Asserted(<<>>, entered)
        ELSE IF ~isNull(member(jsonResponse, "error"))
        THEN Returned(Null,
                      << LogLine("error", "RPC error: {}",
                                 writeString(member(jsonResponse, "error"))) >>,
                      entered)
        ELSE IF "result" \notin DOMAIN jsonResponse.o THEN Asserted(<<>>, entered)
        ELSE Returned(member(jsonResponse, "result"), <<>>, entered)

\* parseRpcResponse handing the error object back to the caller.
parseRpcResponse_returnsError(response) ==
    LET parsed == parseFromStream(response)
        jsonResponse == parsed.value
        entered == << "parseRpcResponse" >>
    IN  IF ~parsed.ok
        THEN Returned(Null,
                      << LogLine("error", "Failed to parse JSON response: {}", ParseErrors) >>,
                      entered)
        ELSE IF ~indexable(jsonResponse) THEN Asserted(<<>>, entered)
        ELSE IF ~isNull(member(jsonResponse, "error"))
        THEN Returned(member(jsonResponse, "error"),
                      << LogLine("error", "RPC error: {}",
                                 writeString(member(jsonResponse, "error"))) >>,
                      entered)
        ELSE Returned(member(jsonResponse, "result"), <<>>, entered)

\* BitcoinClient::parseRpcResponse.
parseRpcResponse(response) ==
    LET parsed == parseFromStream(response)
        jsonResponse == parsed.value
        entered == << "parseRpcResponse" >>
    IN  IF ~parsed.ok
        THEN Returned(Null,
                      << LogLine("error", "Failed to parse JSON response: {}", ParseErrors) >>,
                      entered)
        ELSE IF ~indexable(jsonResponse) THEN Asserted(<<>>, entered)
        ELSE IF ~isNull(member(jsonResponse, "error"))
        THEN Returned(Null,
                      << LogLine("error", "RPC error: {}",
                                 writeString(member(jsonResponse, "error"))) >>,
                      entered)
        ELSE Returned(member(jsonResponse, "result"), <<>>, entered)

\* sendRequest putting the endpoint of the client into the request as its id.
sendRequestPost_endpointInBody(url, user, password, method, params) ==
    LET request == parseFromStream(buildRpcRequest(method, params)).value
        rpcRequest == writeString(setMember(request, "id", StrV(url)))
    IN  [ url |-> url, body |-> rpcRequest, user |-> user, password |-> password,
          contentType |-> "application/json",
          logs |-> << LogLine("info", "Sending RPC request: {}", rpcRequest) >>,
          entered |-> << "buildRpcRequest", "sendPostRequest" >> ]

\* BitcoinClient::sendRequest up to the network call: the POST it hands to
\* Network::sendPostRequest.
sendRequestPost(url, user, password, method, params) ==
    LET rpcRequest == buildRpcRequest(method, params)
    IN  [ url |-> url, body |-> rpcRequest, user |-> user, password |-> password,
          contentType |-> "application/json",
          logs |-> << LogLine("info", "Sending RPC request: {}", rpcRequest) >>,
          entered |-> << "buildRpcRequest", "sendPostRequest" >> ]

\* sendRequest making the network call a second time when the first returned
\* false.
sendRequestReturn_retries(ok, response) ==
    IF ~ok
    THEN Returned(Null, << LogLine("error", "Failed to send RPC request", <<>>) >>,
                  << "sendPostRequest" >>)
    ELSE LET r == parseRpcResponse(response)
         IN  [r EXCEPT !.logs = << LogLine("json", "{}", response) >> \o r.logs]

\* sendRequest decoding the response buffer whatever the network call returned.
sendRequestReturn_ignoresFailure(ok, response) ==
    LET r == parseRpcResponse(response)
    IN  [r EXCEPT !.logs = << LogLine("json", "{}", response) >> \o r.logs]

\* BitcoinClient::sendRequest from the network call's return on.
sendRequestReturn(ok, response) ==
    IF ~ok
    THEN Returned(Null, << LogLine("error", "Failed to send RPC request", <<>>) >>, <<>>)
    ELSE LET r == parseRpcResponse(response)
         IN  [r EXCEPT !.logs = << LogLine("json", "{}", response) >> \o r.logs]

(***************************************************************************)
(* The client and its callers.                                             *)
(***************************************************************************)
VARIABLES
    rpcUser,        \* BitcoinClient::rpcUser
    rpcPassword,    \* BitcoinClient::rpcPassword
    rpcUrl,         \* BitcoinClient::rpcUrl
    pc,             \* where each caller is: "idle", "posting" (inside the network
                    \* call of sendRequest), "done" (sendRequest has ended) or
                    \* "aborted"
    call,           \* the operation each caller invoked, with its arguments, and
                    \* the method and params it passed to sendRequest
    posted,         \* what sendRequest handed to Network::sendPostRequest
    received,       \* what Network::sendPostRequest answered
    outcome,        \* how the call ended and the value the caller got
    logged,         \* the lines the call logged
    trace,          \* the functions the call entered, in order
    invocations,    \* the number of sendRequest calls made so far
    posts           \* the number of Network::sendPostRequest calls made so far

vars ==
    << rpcUser, rpcPassword, rpcUrl, pc, call, posted, received, outcome, logged, trace,
       invocations, posts >>

\* The number of calls the callers of the model make.
MaxCalls == 2

\* The default of the constructor's url parameter.
DefaultUrl == "http://127.0.0.1:8332/"

Urls == {DefaultUrl, "http://node:18332/"}

\* The answers of the remote service and of what stands in front of it.
Envelope(result, error) == writeString(ObjV([result |-> result, error |-> error]))

RpcError(code, message) == ObjV([code |-> IntV(code), message |-> StrV(message)])

Responses ==
    { Envelope(IntV(812345), Null),
      Envelope(Null, RpcError(-5, "Block not found")),
      Envelope(Null, Null),
      Envelope(IntV(7), RpcError(-8, "Invalid parameter")),
      Envelope(StrV("abc"), RpcError(-5, "Block not found")),
      Envelope(BoolV(TRUE), BoolV(FALSE)),
      Envelope(IntV(0), Null),
      Envelope(BoolV(FALSE), Null),
      Envelope(StrV(""), Null),
      Envelope(RealV(150000000), Null),
      Envelope(ArrV(<< IntV(1), StrV("a") >>), Null),
      Envelope(ObjV([chain |-> StrV("main"), blocks |-> IntV(812345)]), Null),
      Envelope(IntV(1), Null) \o << Tok("<html>") >>,
      writeString(ObjV(<<>>)),
      writeString(ObjV([result |-> StrV("abc")])),
      writeString(ObjV([result |-> Null])),
      writeString(ObjV([error |-> Null])),
      writeString(ObjV([error |-> RpcError(-32601, "Method not found")])),
      << Tok("{"), StrTok("result"), Tok(":") >>,
      << Tok("<html>") >>,
      <<>>,
      << Tok("null") >>,
      << IntTok(5) >>,
      << StrTok("abc") >>,
      writeString(ArrV(<< IntV(1) >>)) }

\* The answer of a service that sends back, as `result`, the `params` of the
\* request it was sent.
Echo(body) == Envelope(member(parseFromStream(body).value, "params"), Null)

NoCall == [op |-> "", args |-> <<>>, method |-> "", params |-> Null]

NoPost == [url |-> "", body |-> <<>>, user |-> "", password |-> "", contentType |-> ""]

NoAnswer == [status |-> "none", body |-> <<>>]

NoOutcome == [kind |-> "none", value |-> Null]

\* A constructor that tries the endpoint: one network call before any
\* operation is called.
InitFor_probes(callers) ==
    /\ rpcUser = "root"
    /\ rpcPassword = "rpcpassword"
    /\ rpcUrl \in Urls
    /\ pc = [t \in callers |-> "idle"]
    /\ call = [t \in callers |-> NoCall]
    /\ posted = [t \in callers |-> NoPost]
    /\ received = [t \in callers |-> NoAnswer]
    /\ outcome = [t \in callers |-> NoOutcome]
    /\ logged = [t \in callers |-> <<>>]
    /\ trace = [t \in callers |-> <<>>]
    /\ invocations = 0
    /\ posts = 1

\* BitcoinClient::BitcoinClient: the three fields are copied from the arguments.
InitFor(callers) ==
    /\ rpcUser = "root"
    /\ rpcPassword = "rpcpassword"
    /\ rpcUrl \in Urls
    /\ pc = [t \in callers |-> "idle"]
    /\ call = [t \in callers |-> NoCall]
    /\ posted = [t \in callers |-> NoPost]
    /\ received = [t \in callers |-> NoAnswer]
    /\ outcome = [t \in callers |-> NoOutcome]
    /\ logged = [t \in callers |-> <<>>]
    /\ trace = [t \in callers |-> <<>>]
    /\ invocations = 0
    /\ posts = 0

CountOf(seq, x) == Len(SelectSeq(seq, LAMBDA y : y = x))

\* A caller invokes an operation: the wrapper marshals the arguments and
\* calls sendRequest, which builds the request and enters the network call.
Invoke(t, ops) ==
    /\ pc[t] = "idle"
    /\ \A u \in DOMAIN pc : pc[u] # "aborted"
    /\ invocations < MaxCalls
    /\ \E op \in ops :
         \E args \in ArgsOf(op) :
            LET c == CallOf(op, args)
                p == sendRequestPost(rpcUrl, rpcUser, rpcPassword, c.method, c.params)
            IN  /\ call' = [call EXCEPT ![t] =
                        [op |-> op, args |-> args, method |-> c.method, params |-> c.params]]
                /\ posted' = [posted EXCEPT ![t] =
                        [url |-> p.url, body |-> p.body, user |-> p.user,
                         password |-> p.password, contentType |-> p.contentType]]
                /\ logged' = [logged EXCEPT ![t] = p.logs]
                /\ trace' = [trace EXCEPT ![t] = p.entered]
                /\ posts' = posts + CountOf(p.entered, "sendPostRequest")
    /\ pc' = [pc EXCEPT ![t] = "posting"]
    /\ received' = [received EXCEPT ![t] = NoAnswer]
    /\ outcome' = [outcome EXCEPT ![t] = NoOutcome]
    /\ invocations' = invocations + 1
    /\ UNCHANGED << rpcUser, rpcPassword, rpcUrl >>

\* sendRequest keeping the response buffer in the client, where every call in
\* progress reads it.
Finish_sharedResponse(t, answer, r, kind) ==
    /\ received' = [u \in DOMAIN received |-> IF pc[u] = "idle" THEN received[u] ELSE answer]
    /\ outcome' = [outcome EXCEPT ![t] = [kind |-> kind, value |-> r.value]]
    /\ logged' = [logged EXCEPT ![t] = @ \o r.logs]
    /\ trace' = [trace EXCEPT ![t] = @ \o r.entered]
    /\ pc' = [pc EXCEPT ![t] = IF kind = "aborted" THEN "aborted" ELSE "done"]
    /\ posts' = posts + CountOf(r.entered, "sendPostRequest")
    /\ UNCHANGED << rpcUser, rpcPassword, rpcUrl, call, posted, invocations >>

\* The network call taking the password out of the client (moved from, not
\* copied).
Finish_consumesPassword(t, answer, r, kind) ==
    /\ received' = [received EXCEPT ![t] = answer]
    /\ outcome' = [outcome EXCEPT ![t] = [kind |-> kind, value |-> r.value]]
    /\ logged' = [logged EXCEPT ![t] = @ \o r.logs]
    /\ trace' = [trace EXCEPT ![t] = @ \o r.entered]
    /\ pc' = [pc EXCEPT ![t] = IF kind = "aborted" THEN "aborted" ELSE "done"]
    /\ posts' = posts + CountOf(r.entered, "sendPostRequest")
    /\ rpcPassword' = ""
    /\ UNCHANGED << rpcUser, rpcUrl, call, posted, invocations >>

\* The rest of sendRequest, once the network call has answered.
Finish(t, answer, r, kind) ==
    /\ received' = [received EXCEPT ![t] = answer]
    /\ outcome' = [outcome EXCEPT ![t] = [kind |-> kind, value |-> r.value]]
    /\ logged' = [logged EXCEPT ![t] = @ \o r.logs]
    /\ trace' = [trace EXCEPT ![t] = @ \o r.entered]
    /\ pc' = [pc EXCEPT ![t] = IF kind = "aborted" THEN "aborted" ELSE "done"]
    /\ posts' = posts + CountOf(r.entered, "sendPostRequest")
    /\ UNCHANGED << rpcUser, rpcPassword, rpcUrl, call, posted, invocations >>

\* Network::sendPostRequest returns false.
TransportFails(t) ==
    /\ pc[t] = "posting"
    /\ \A u \in DOMAIN pc : pc[u] # "aborted"
    /\ Finish(t, [status |-> "failed", body |-> <<>>], sendRequestReturn(FALSE, <<>>),
              "returned")

\* Network::sendPostRequest returns true and has filled in the response.  A
\* failed jsoncpp assertion throws Json::LogicError or aborts the process,
\* as the library was built.
TransportAnswers(t) ==
    /\ pc[t] = "posting"
    /\ \A u \in DOMAIN pc : pc[u] # "aborted"
    /\ \E bytes \in Responses \cup {Echo(posted[t].body)} :
         LET r == sendRequestReturn(TRUE, bytes)
         IN  \E kind \in (IF r.kind = "asserted" THEN {"threw", "aborted"} ELSE {"returned"}) :
                Finish(t, [status |-> "ok", body |-> bytes], r, kind)

\* The caller has got the outcome of its call and is free to make another.
Return(t) ==
    /\ pc[t] = "done"
    /\ \A u \in DOMAIN pc : pc[u] # "aborted"
    /\ pc' = [pc EXCEPT ![t] = "idle"]
    /\ call' = [call EXCEPT ![t] = NoCall]
    /\ posted' = [posted EXCEPT ![t] = NoPost]
    /\ received' = [received EXCEPT ![t] = NoAnswer]
    /\ outcome' = [outcome EXCEPT ![t] = NoOutcome]
    /\ logged' = [logged EXCEPT ![t] = <<>>]
    /\ trace' = [trace EXCEPT ![t] = <<>>]
    /\ UNCHANGED << rpcUser, rpcPassword, rpcUrl, invocations, posts >>

\* One caller, every operation.
Init == InitFor({"c1"})

Next ==
    \/ \E t \in DOMAIN pc : Invoke(t, AllOperations)
    \/ \E t \in DOMAIN pc : TransportFails(t)
    \/ \E t \in DOMAIN pc : TransportAnswers(t)
    \/ \E t \in DOMAIN pc : Return(t)

Spec == Init /\ [][Next]_vars

\* Two callers on one client, each free to call at any time.
ConcOperations == {"getBlockCount", "getBlock"}

InitConc == InitFor({"c1", "c2"})

NextConc ==
    \/ \E t \in DOMAIN pc : Invoke(t, ConcOperations)
    \/ \E t \in DOMAIN pc : TransportFails(t)
    \/ \E t \in DOMAIN pc : TransportAnswers(t)
    \/ \E t \in DOMAIN pc : Return(t)

SpecConc == InitConc /\ [][NextConc]_vars

(***************************************************************************)
(* The same call with the return of the network call and the rest of       *)
(* sendRequest as two steps: the calling thread is inside                  *)
(* Network::sendPostRequest ("posting"), the network call has returned     *)
(* ("answered"), sendRequest has run to its end ("done").                  *)
(***************************************************************************)

\* Network::sendPostRequest returns, true with a response or false.
Answer(t) ==
    /\ pc[t] = "posting"
    /\ \E answer \in {[status |-> "failed", body |-> <<>>]}
                      \cup {[status |-> "ok", body |-> b] :
                                b \in Responses \cup {Echo(posted[t].body)}} :
          received' = [received EXCEPT ![t] = answer]
    /\ pc' = [pc EXCEPT ![t] = "answered"]
    /\ UNCHANGED << rpcUser, rpcPassword, rpcUrl, call, posted, outcome, logged, trace,
                    invocations, posts >>

\* sendRequest waiting for a worker to pick the response up.
Continue_queued(t) ==
    /\ pc[t] = "answered"
    /\ pc' = [pc EXCEPT ![t] = "queued"]
    /\ UNCHANGED << rpcUser, rpcPassword, rpcUrl, call, posted, received, outcome, logged,
                    trace, invocations, posts >>

\* sendRequest from the return of the network call to its own return: the
\* statements after the call, with no loop and no wait among them.
Continue(t) ==
    /\ pc[t] = "answered"
    /\ LET r == sendRequestReturn(received[t].status = "ok", received[t].body)
       IN  \E kind \in (IF r.kind = "asserted" THEN {"threw", "aborted"} ELSE {"returned"}) :
              Finish(t, received[t], r, kind)

LiveCallers == {"c1"}

NextLive ==
    \/ \E t \in LiveCallers : Invoke(t, ConcOperations)
    \/ \E t \in LiveCallers : Answer(t)
    \/ \E t \in LiveCallers : Continue(t)
    \/ \E t \in LiveCallers : Return(t)

\* The network call returns in the end (the premise of a call that ends), and
\* the calling thread, once back in sendRequest, keeps running.
SpecLive ==
    /\ InitFor(LiveCallers)
    /\ [][NextLive]_vars
    /\ \A t \in LiveCallers : WF_vars(Answer(t)) /\ WF_vars(Continue(t))

(***************************************************************************)
(* buildParams on its own: the arguments are C++ values of the types the   *)
(* wrappers pass (bool, int, double, std::string, Json::Value), and        *)
(* params.append(arg) converts each with the Json::Value constructor of    *)
(* its type.                                                               *)
(***************************************************************************)
MaxArgs == 3

CppArg(ctype, b, n, s, j) == [ctype |-> ctype, b |-> b, n |-> n, s |-> s, j |-> j]

BuildArguments ==
    { CppArg("bool", FALSE, 0, "", Null), CppArg("bool", TRUE, 0, "", Null),
      CppArg("int", FALSE, 0, "", Null), CppArg("int", FALSE, 1, "", Null),
      CppArg("double", FALSE, 1, "", Null),
      CppArg("string", FALSE, 0, "", Null), CppArg("string", FALSE, 0, "1", Null),
      CppArg("Json::Value", FALSE, 0, "", Null),
      CppArg("Json::Value", FALSE, 0, "", ArrV(<<>>)),
      CppArg("Json::Value", FALSE, 0, "", ArrV(<< Outpoint >>)),
      CppArg("Json::Value", FALSE, 0, "", Amounts) }

BuildArgLists == UNION { [1 .. n -> BuildArguments] : n \in 1 .. MaxArgs }

\* The implicit conversion in params.append(std::forward<Args>(args)):
\* Json::Value(bool), Json::Value(Int), Json::Value(double),
\* Json::Value(const std::string&), and the copy of a Json::Value.
JsonValueOf(x) ==
    CASE x.ctype = "bool" -> BoolV(x.b)
      [] x.ctype = "int" -> IntV(x.n)
      [] x.ctype = "double" -> RealV(x.n)
      [] x.ctype = "string" -> StrV(x.s)
      [] x.ctype = "Json::Value" -> x.j

BuildParamsCall(t) ==
    /\ pc[t] = "idle"
    /\ \E args \in BuildArgLists :
          call' = [call EXCEPT ![t] =
                    [op |-> "buildParams", args |-> args, method |-> "",
                     params |-> buildParams([i \in 1 .. Len(args) |-> JsonValueOf(args[i])])]]
    /\ pc' = [pc EXCEPT ![t] = "built"]
    /\ UNCHANGED << rpcUser, rpcPassword, rpcUrl, posted, received, outcome, logged, trace,
                    invocations, posts >>

SpecBuild == InitFor({"c1"}) /\ [][\E t \in DOMAIN pc : BuildParamsCall(t)]_vars

(***************************************************************************)
(* Properties.                                                             *)
(***************************************************************************)
Ended(t) == pc[t] \in {"done", "aborted"}

Reply(t) == parseFromStream(received[t].body)

ErrorField(t) == member(Reply(t).value, "error")

ResultField(t) == member(Reply(t).value, "result")

\* The three ways a call fails, and the successful call.
TransportFailed(t) == received[t].status = "failed"

Malformed(t) ==
    received[t].status = "ok" /\ (~Reply(t).ok \/ Reply(t).value.type # "object")

RemoteFailed(t) ==
    /\ received[t].status = "ok"
    /\ Reply(t).ok
    /\ Reply(t).value.type = "object"
    /\ ~isNull(ErrorField(t))

Succeeded(t) ==
    /\ received[t].status = "ok"
    /\ Reply(t).ok
    /\ Reply(t).value.type = "object"
    /\ isNull(ErrorField(t))

FailureKind(t) ==
    CASE TransportFailed(t) -> "transport"
      [] Malformed(t) -> "protocol"
      [] RemoteFailed(t) -> "remote"
      [] OTHER -> "none"

\* The outcome of a successful call whose result is v.
SuccessOutcome(v) == [kind |-> "returned", value |-> v]

\* The results the successful answers of the model carry.
SuccessValues ==
    { member(parseFromStream(b).value, "result") :
        b \in { x \in Responses :
                  /\ parseFromStream(x).ok
                  /\ parseFromStream(x).value.type = "object"
                  /\ isNull(member(parseFromStream(x).value, "error")) } }

\* An outcome carries the error e: it is e, or it holds e, or it holds the
\* code and the message of e.
Carries(o, e) ==
    /\ o.kind \in {"returned", "threw"}
    /\ \/ o.value = e
       \/ o.value.type = "object" /\ member(o.value, "error") = e
       \/ /\ o.value.type = "object"
          /\ e.type = "object"
          /\ member(o.value, "code") = member(e, "code")
          /\ member(o.value, "message") = member(e, "message")

\* C1: a response that parses and whose `error` is non-null yields an outcome
\* that carries the code and the message of that error, unmodified, whatever
\* `result` holds.
C1_RemoteErrorCarried ==
    \A t \in DOMAIN pc : Ended(t) /\ RemoteFailed(t) => Carries(outcome[t], ErrorField(t))

\* C2: a response that does not parse as the envelope structure yields a
\* protocol error, never an outcome a successful call yields.
C2_MalformedNeverSuccess ==
    \A t \in DOMAIN pc :
        Ended(t) /\ Malformed(t)
            => outcome[t] \notin { SuccessOutcome(v) : v \in SuccessValues }

\* C3: a call that failed (transport failure, malformed response, non-null
\* error) never ends with the outcome of a successful call whose result is
\* null.
C3_FailureIsNotNullSuccess ==
    \A t \in DOMAIN pc :
        Ended(t) /\ FailureKind(t) # "none" => outcome[t] # SuccessOutcome(Null)

\* C4: the three failure kinds stay distinct at the caller: two calls that
\* failed in different ways end with different outcomes, whatever the
\* operations called.
C4_FailureKindsDistinct ==
    \A t1, t2 \in DOMAIN pc :
        /\ Ended(t1) /\ Ended(t2)
        /\ FailureKind(t1) # "none" /\ FailureKind(t2) # "none"
        /\ FailureKind(t1) # FailureKind(t2)
        => outcome[t1] # outcome[t2]

\* C5: within a call the steps run in sequence (build the request, post it,
\* decode the answer), the decoder runs only once the network call has
\* returned success, and after a transport failure the call ends without the
\* decoder having run.
C5_DecodeOnlyAfterTransportSuccess ==
    \A t \in DOMAIN pc :
        /\ trace[t] \in { <<>>, << "buildRpcRequest", "sendPostRequest" >>,
                          << "buildRpcRequest", "sendPostRequest", "parseRpcResponse" >> }
        /\ CountOf(trace[t], "parseRpcResponse") > 0 => received[t].status = "ok"
        /\ TransportFailed(t) =>
              /\ Ended(t)
              /\ trace[t] = << "buildRpcRequest", "sendPostRequest" >>

C5_Witness ==
    \E t \in DOMAIN pc : TransportFailed(t) /\ pc[t] = "done" /\ call[t].op = "getBlock"

\* The value an argument is encoded as: a vector as the array of its
\* elements, a map as the object of its entries, getBlock's verbose flag as
\* the verbosity 2 or 1, anything else as itself.
EncodingsOf(op, i, x) ==
    LET ctype == DeclaredOf(op)[i].ctype
    IN  CASE op = "getBlock" /\ i = 2 -> {IF x.b THEN IntV(2) ELSE IntV(1)}
          [] ctype \in {"vector<string>", "vector<Json::Value>"} -> {x, appendAll(Null, x.a)}
          [] ctype = "map<string,double>" -> {x, setAll(Null, x.o)}
          [] OTHER -> {x}

IsNamedCall(t) == call[t].op \notin {"", "sendRequest"}

\* C6: in every named operation the i-th element of `params` is the value of
\* the i-th declared argument: `params` is empty or a gap-free prefix of the
\* argument list.
C6_NoPositionalGaps ==
    \A t \in DOMAIN pc :
        IsNamedCall(t) =>
            /\ call[t].params.type \in {"null", "array"}
            /\ Len(call[t].params.a) <= Len(call[t].args)
            /\ \A i \in 1 .. Len(call[t].params.a) :
                  call[t].params.a[i] \in EncodingsOf(call[t].op, i, call[t].args[i])

RequiredCount(op) == Len(SelectSeq(DeclaredOf(op), LAMBDA p : ~p.optional))

AllDefaults(op, args) ==
    \A i \in 1 .. Len(args) : DeclaredOf(op)[i].optional => args[i] = DeclaredOf(op)[i].default

\* C7: when every optional argument of a named operation is at its default,
\* `params` has as many elements as the operation has required arguments.
C7_DefaultsOmitted ==
    \A t \in DOMAIN pc :
        IsNamedCall(t) /\ AllDefaults(call[t].op, call[t].args)
            => Len(call[t].params.a) = RequiredCount(call[t].op)

\* The envelope on the wire, read back.
Envelope_(t) == parseFromStream(posted[t].body).value

\* C8: an operation called with no arguments, and sendRequest called with
\* `params` at its default, send an envelope whose `params` is the empty
\* sequence: jsonrpc "1.0", the id token, the method, params [].
C8_NoArgumentsEmptyParams ==
    \A t \in DOMAIN pc :
        /\ call[t].op # ""
        /\ \/ call[t].args = <<>>
           \/ call[t].op = "sendRequest" /\ call[t].args[2] = DefaultParams
        => /\ member(Envelope_(t), "jsonrpc") = StrV("1.0")
           /\ member(Envelope_(t), "id") = StrV("Genyleap-Bitcoin-RPC")
           /\ member(Envelope_(t), "method") = StrV(call[t].method)
           /\ member(Envelope_(t), "params") = ArrV(<<>>)

\* C9: when the transport succeeds, the response parses and its `error` is
\* null or absent, the call returns the value of the response's `result`
\* unchanged (null when `result` is null or absent).
C9_SuccessReturnsResult ==
    \A t \in DOMAIN pc :
        /\ Ended(t)
        /\ received[t].status = "ok"
        /\ Reply(t).ok
        /\ indexable(Reply(t).value)
        /\ isNull(ErrorField(t))
        => outcome[t] = SuccessOutcome(ResultField(t))

C9_Witness ==
    \E t \in DOMAIN pc :
        /\ pc[t] = "done"
        /\ Succeeded(t)
        /\ outcome[t].value = ObjV([chain |-> StrV("main"), blocks |-> IntV(812345)])

\* C10: when the parsed response has a non-null `error`, the call fails (it
\* returns null and logs the error) and the value of `result` is not
\* returned, whether or not `result` is present or non-null.
C10_ErrorWinsOverResult ==
    \A t \in DOMAIN pc :
        /\ Ended(t)
        /\ received[t].status = "ok"
        /\ Reply(t).ok
        /\ indexable(Reply(t).value)
        /\ ~isNull(ErrorField(t))
        => /\ outcome[t] = [kind |-> "returned", value |-> Null]
           /\ ~isNull(ResultField(t)) => outcome[t].value # ResultField(t)
           /\ \E i \in 1 .. Len(logged[t]) :
                 /\ logged[t][i].level = "error"
                 /\ logged[t][i].arg = writeString(ErrorField(t))

C10_Witness ==
    \E t \in DOMAIN pc :
        /\ pc[t] = "done"
        /\ RemoteFailed(t)
        /\ ResultField(t) = IntV(7)

\* C11: every call of sendRequest makes exactly one network call: none is
\* answered without one and none is sent twice, whatever the network call or
\* the decoding returned; after n calls Network::sendPostRequest has been
\* entered n times.
C11_OneSendPerInvoke ==
    /\ posts = invocations
    /\ \A t \in DOMAIN pc :
          /\ pc[t] # "idle" => CountOf(trace[t], "sendPostRequest") = 1
          /\ pc[t] = "idle" => trace[t] = <<>>

C11_Witness ==
    /\ invocations = 2
    /\ posts = 2
    /\ \E t \in DOMAIN pc : pc[t] = "done" /\ TransportFailed(t)

\* An argument is known to have been given by the caller when a later
\* argument differs from its declared default: C++ default arguments are
\* trailing, so giving the later one means giving every earlier one.
GivenExplicitly(op, args, i) ==
    \E j \in (i + 1) .. Len(args) :
        DeclaredOf(op)[j].optional /\ args[j] # DeclaredOf(op)[j].default

\* The first n arguments of the call are encoded at their positions.
EncodedInPlace(t, n) ==
    /\ n <= Len(call[t].params.a)
    /\ \A k \in 1 .. n : call[t].params.a[k] \in EncodingsOf(call[t].op, k, call[t].args[k])

\* C12: an optional integer argument a caller gives as 0 is encoded as 0 at
\* that argument's position of `params` (the arguments before it being at
\* theirs); it is not dropped for being equal to the value that stands for
\* "not given" (rescanBlockchain's start height 0 given together with a
\* positive stop height).
C12_ExplicitZeroEncoded ==
    \A t \in DOMAIN pc :
        IsNamedCall(t) =>
            \A i \in 1 .. Len(call[t].args) :
                /\ DeclaredOf(call[t].op)[i].ctype = "int"
                /\ DeclaredOf(call[t].op)[i].optional
                /\ call[t].args[i] = IntV(0)
                /\ GivenExplicitly(call[t].op, call[t].args, i)
                /\ EncodedInPlace(t, i - 1)
                => /\ i <= Len(call[t].params.a)
                   /\ call[t].params.a[i] = IntV(0)

\* An outcome is a remote error with the given code: it is the code, or holds
\* it as `code`, or holds an error that holds it.
CarriesCode(o, code) ==
    /\ o.kind \in {"returned", "threw"}
    /\ \/ o.value = IntV(code)
       \/ member(o.value, "code") = IntV(code)
       \/ member(member(o.value, "error"), "code") = IntV(code)

\* getBlock's `params`: the hash, then the verbosity 2 or 1.
GetBlockParams(t) ==
    /\ call[t].method = "getblock"
    /\ call[t].params =
          ArrV(<< call[t].args[1], IF call[t].args[2].b THEN IntV(2) ELSE IntV(1) >>)
    /\ member(Envelope_(t), "params") = call[t].params

BlockNotFound == Envelope(Null, RpcError(-5, "Block not found"))

\* C13: getBlock always sends two positional parameters, the block hash and
\* the integer verbosity ([hash, 1] when verbose is false, [hash, 2] when it
\* is true), and a response whose error is {code -5, "Block not found"} and
\* whose result is null ends the call with a remote error of code -5.
C13_GetBlock ==
    \A t \in DOMAIN pc :
        call[t].op = "getBlock" =>
            /\ GetBlockParams(t)
            /\ Ended(t) /\ received[t].body = BlockNotFound => CarriesCode(outcome[t], -5)

\* The answer is an envelope whose `error` and `result` are each null or
\* absent.
NullResultSuccess(t) == Succeeded(t) /\ isNull(ResultField(t))

HasMember(t, key) == key \in DOMAIN Reply(t).value.o

NoErrorLogged(t) == \A i \in 1 .. Len(logged[t]) : logged[t][i].level # "error"

\* C14: a response whose `result` and `error` are both null or absent ends
\* the call as a success with the null result, and whether `result` is
\* present and null or absent makes no difference to the outcome.
C14_NullOrAbsentIsNullSuccess ==
    /\ \A t \in DOMAIN pc :
          Ended(t) /\ NullResultSuccess(t)
              => outcome[t] = SuccessOutcome(Null) /\ NoErrorLogged(t)
    /\ \A t1, t2 \in DOMAIN pc :
          /\ Ended(t1) /\ NullResultSuccess(t1) /\ HasMember(t1, "result")
          /\ Ended(t2) /\ NullResultSuccess(t2) /\ ~HasMember(t2, "result")
          => outcome[t1] = outcome[t2]

C14_Witness ==
    \E t1, t2 \in DOMAIN pc :
        /\ pc[t1] = "done" /\ NullResultSuccess(t1) /\ HasMember(t1, "result")
        /\ pc[t2] = "done" /\ NullResultSuccess(t2) /\ ~HasMember(t2, "result")
        /\ ~HasMember(t2, "error")

Echoed(t) == received[t] = [status |-> "ok", body |-> Echo(posted[t].body)]

InCall(t) == pc[t] # "idle"

\* C16: the protocol version and the correlation id are constants: every
\* envelope sent, by any client, for any method and params, first call or
\* later, has the member `jsonrpc` with the value "1.0" and the member `id`
\* with the same token.
C16_VersionAndIdConstant ==
    \A t \in DOMAIN pc :
        InCall(t) =>
            /\ Envelope_(t).type = "object"
            /\ {"jsonrpc", "id"} \subseteq DOMAIN Envelope_(t).o
            /\ Envelope_(t).o["jsonrpc"] = StrV("1.0")
            /\ Envelope_(t).o["id"] = StrV("Genyleap-Bitcoin-RPC")

C16_Witness ==
    \E t \in DOMAIN pc :
        /\ invocations = 2
        /\ rpcUrl # DefaultUrl
        /\ pc[t] = "posting"
        /\ call[t].method = "getblock"

\* The envelope holds the method and the params handed to sendRequest, as
\* they were given.
EnvelopeCarriesCall(t) ==
    /\ member(Envelope_(t), "method") = StrV(call[t].method)
    /\ member(Envelope_(t), "params") = call[t].params

\* C17: the envelope built for a call carries the method name as given and a
\* `params` equal, element for element and in order, to the marshalled
\* parameters, and `params` in the envelope is always a sequence.
C17_EnvelopeParamsSequence ==
    \A t \in DOMAIN pc :
        InCall(t) =>
            /\ EnvelopeCarriesCall(t)
            /\ member(Envelope_(t), "params").type = "array"

IsCollection(p) == p.ctype \in {"vector<string>", "vector<Json::Value>", "map<string,double>"}

\* C18: a collection argument (a list of strings, a list of structured
\* inputs, a map from address to amount) takes exactly one element of
\* `params`, a sequence or a mapping that holds all its elements in order,
\* whatever its size, zero included; it is never spread over several
\* elements.
C18_CollectionOneSlot ==
    \A t \in DOMAIN pc :
        IsNamedCall(t) =>
            /\ Len(call[t].params.a) <= Len(call[t].args)
            /\ \A i \in 1 .. Len(call[t].args) :
                  IsCollection(DeclaredOf(call[t].op)[i]) =>
                      \E j \in 1 .. Len(call[t].params.a) :
                          call[t].params.a[j] = call[t].args[i]

\* C19: the configuration (user name, password, endpoint URL) is set by the
\* constructor and no operation changes it: no step of any call, successful
\* or failed, assigns to any of the three fields.
C19_ConfigurationUnchanged ==
    [][rpcUser' = rpcUser /\ rpcPassword' = rpcPassword /\ rpcUrl' = rpcUrl]_vars

C19_Witness ==
    /\ invocations = 2
    /\ \E t \in DOMAIN pc :
          /\ pc[t] = "done"
          /\ RemoteFailed(t)
          /\ posted[t].url = rpcUrl
          /\ posted[t].user = rpcUser
          /\ posted[t].password = rpcPassword

\* What belongs to one call: the request, the answer to it and the outcome.
OwnState(t) == << pc[t], call[t], posted[t], received[t], outcome[t], logged[t], trace[t] >>

OwnStateNext(t) ==
    << pc'[t], call'[t], posted'[t], received'[t], outcome'[t], logged'[t], trace'[t] >>

\* Calls with the same method and params, given the same answer, have sent
\* the same request and ended the same way; the envelope of a call in
\* progress is the one built for that call.
OutcomeFromOwnCall ==
    /\ \A t \in DOMAIN pc : InCall(t) => EnvelopeCarriesCall(t)
    /\ \A t1, t2 \in DOMAIN pc :
          /\ Ended(t1) /\ Ended(t2)
          /\ call[t1].method = call[t2].method
          /\ call[t1].params = call[t2].params
          /\ received[t1] = received[t2]
          => /\ posted[t1] = posted[t2]
             /\ outcome[t1].value = outcome[t2].value
             /\ logged[t1] = logged[t2]

\* A step of one call leaves what belongs to the other calls as it was.
OthersUntouched ==
    \E t \in DOMAIN pc : \A u \in DOMAIN pc \ {t} : OwnStateNext(u) = OwnState(u)

\* C20: with several calls in progress on one client, under every
\* interleaving, the outcome of a call depends only on its own method, its
\* own params and the answer to its own request; no call reads or writes the
\* request or the response of another, and the calls share no state.
C20_CallsIndependent == [](OutcomeFromOwnCall) /\ [][OthersUntouched]_vars

C20_Witness ==
    \E t1, t2 \in DOMAIN pc :
        /\ pc[t1] = "done" /\ call[t1].method = "getblock" /\ RemoteFailed(t1)
        /\ pc[t2] = "done" /\ call[t2].method = "getblockcount" /\ Succeeded(t2)
        /\ outcome[t2].value = IntV(812345)

\* The methods an operation calls, over every argument list.
MethodsOf(op) == { Wrapper(op, a).method : a \in ArgLists(Declared(op)) }

\* C21: every named operation makes exactly one sendRequest call, with a
\* method name that is the same for all its arguments, and the value the
\* caller gets is the value that call returned (the `result` of a successful
\* answer, null otherwise), with nothing done to it.
C21_OneCallFixedMethod ==
    \A t \in DOMAIN pc :
        IsNamedCall(t) =>
            /\ MethodsOf(call[t].op) = {call[t].method}
            /\ CountOf(trace[t], "buildRpcRequest") = 1
            /\ member(Envelope_(t), "method") = StrV(call[t].method)
            /\ outcome[t].kind = "returned" =>
                  outcome[t].value = IF Succeeded(t) THEN ResultField(t) ELSE Null

C21_Witness ==
    \E t \in DOMAIN pc :
        /\ pc[t] = "done"
        /\ call[t].op = "submitBlock"
        /\ call[t].args[2] = StrV("x")
        /\ Succeeded(t)
        /\ outcome[t].value = StrV("abc")

\* The bytes of the envelope for a method and params.
EnvelopeBytes(method, params) ==
    writeString(ObjV([jsonrpc |-> StrV("1.0"), id |-> StrV("Genyleap-Bitcoin-RPC"),
                      method |-> StrV(method), params |-> params]))

\* The request in flight is a function of the call's method and params alone.
EncodingDetermined ==
    \A t \in DOMAIN pc :
        InCall(t) =>
            /\ posted[t].body = EnvelopeBytes(call[t].method, call[t].params)
            /\ logged[t][1].arg = posted[t].body

\* The step that encodes a request makes the one network call of sendRequest
\* and leaves the client as it was.
EncodingStep ==
    invocations' # invocations =>
        /\ posts' = posts + 1
        /\ << rpcUser', rpcPassword', rpcUrl' >> = << rpcUser, rpcPassword, rpcUrl >>

\* C22: the encoder is deterministic and has no side effect: the same method
\* and params give the same bytes whatever the credentials, the endpoint and
\* the earlier calls, and encoding sends nothing and changes nothing in the
\* client.
C22_EncoderDeterministic == [](EncodingDetermined) /\ [][EncodingStep]_vars

C22_Witness ==
    \E t \in DOMAIN pc :
        /\ invocations = 2
        /\ rpcUrl # DefaultUrl
        /\ pc[t] = "posting"
        /\ call[t].op = "sendRequest"
        /\ call[t].params = EveryVariant

\* From the return of the network call, sendRequest ends in one step.
NoWaitAfterAnswer ==
    \A t \in LiveCallers : pc[t] = "answered" /\ pc'[t] # pc[t] => pc'[t] \in {"done", "aborted"}

C24_ConstructionNoIO ==
    /\ invocations = 0 =>
          /\ posts = 0
          /\ \A t \in DOMAIN pc :
                /\ pc[t] = "idle"
                /\ posted[t] = NoPost
                /\ received[t] = NoAnswer
                /\ logged[t] = <<>>
                /\ trace[t] = <<>>
    /\ posts > 0 => invocations > 0
    /\ rpcUser = "root"
    /\ rpcPassword = "rpcpassword"
    /\ rpcUrl \in Urls
    /\ DefaultUrl = "http://127.0.0.1:8332/"

C24_Witness ==
    /\ invocations = 0
    /\ posts = 0
    /\ rpcUrl = DefaultUrl
    /\ \A t \in DOMAIN pc : pc[t] = "idle"

\* The three failures sendRequest tests for: the network call returned
\* false, the reader rejected the response, the envelope has a non-null
\* `error`.
SendFailed(t) == received[t].status = "failed"

ParseFailed(t) == received[t].status = "ok" /\ ~Reply(t).ok

ErrorReturned(t) ==
    received[t].status = "ok" /\ Reply(t).ok /\ indexable(Reply(t).value)
        /\ ~isNull(ErrorField(t))

\* C25: a non-null value returned by sendRequest means success: the network
\* call returned true, the response parsed, its `error` was null and the
\* value is its `result`; after each of the three failures the value
\* returned is null, so the caller's isNull() test is true.
C25_NonNullMeansSuccess ==
    \A t \in DOMAIN pc :
        /\ outcome[t].kind = "returned" /\ ~isNull(outcome[t].value) =>
              /\ received[t].status = "ok"
              /\ Reply(t).ok
              /\ isNull(ErrorField(t))
              /\ outcome[t].value = ResultField(t)
        /\ Ended(t) /\ (SendFailed(t) \/ ParseFailed(t) \/ ErrorReturned(t)) =>
              /\ outcome[t].kind = "returned"
              /\ isNull(outcome[t].value)

C25_Witness ==
    \E t \in DOMAIN pc :
        /\ pc[t] = "done"
        /\ call[t].op = "getBlockchainInfo"
        /\ ErrorReturned(t)
        /\ isNull(outcome[t].value)

\* C26: sendRequest is total over the answers of the network call: whatever
\* bytes come back with success, valid JSON that is not an object included (a
\* number, a string, an array, the literal null), sendRequest returns a value
\* and no exception or abort leaves the call.
C26_TotalOverAnswers ==
    \A t \in DOMAIN pc :
        Ended(t) /\ received[t].status = "ok" =>
            /\ outcome[t].kind = "returned"
            /\ pc[t] = "done"

\* The operations the claim names.
LastOptionalOperations ==
    { "help", "getBlockTemplate", "getAddedNodeInfo", "getNewAddress", "getRawChangeAddress",
      "unloadWallet", "upgradeWallet", "getChainTxStats", "getTxOutProof", "submitBlock",
      "fundRawTransaction", "bumpFee", "psbtBumpFee", "utxoUpdatePsbt", "deriveAddresses",
      "importMulti", "lockUnspent", "signRawTransactionWithKey",
      "signRawTransactionWithWallet", "addMultiSigAddress", "walletCreateFundedPsbt" }

\* The value that stands for "not given": the empty string, the null value.
Sentinel(p) == IF p.ctype = "string" THEN StrV("") ELSE Null

\* `params` is the first n arguments, in order, then the last argument if
\* and only if it is not at its sentinel.
PrefixThenLast(t, n) ==
    LET args == call[t].args
        last == Len(args)
        given == args[last] # Sentinel(DeclaredOf(call[t].op)[last])
    IN  /\ Len(call[t].params.a) = n + (IF given THEN 1 ELSE 0)
        /\ \A i \in 1 .. n : call[t].params.a[i] \in EncodingsOf(call[t].op, i, args[i])
        /\ given => call[t].params.a[n + 1] = args[last]

\* C27: for each of the operations whose only optional argument is said to be
\* the last one, `params` holds the required arguments in order, followed by
\* the optional argument if and only if it is not the empty string or the
\* null value; its length is the required count or one more.
C27_LastOptionalOmitted ==
    \A t \in DOMAIN pc :
        call[t].op \in LastOptionalOperations =>
            /\ DeclaredOf(call[t].op)[Len(call[t].args)].optional
            /\ PrefixThenLast(t, RequiredCount(call[t].op))

ImportOperations == {"importAddress", "importPrivKey", "importPubKey"}

\* C28: importAddress, importPrivKey and importPubKey always encode the
\* rescan flag, as the last element of `params`, and encode the label only
\* when it is not empty: `params` has two elements when the label is empty and
\* three otherwise, whether rescan is true or false.
C28_ImportRescanLast ==
    \A t \in DOMAIN pc :
        call[t].op \in ImportOperations =>
            LET args == call[t].args
                params == call[t].params.a
            IN  /\ call[t].params.type = "array"
                /\ Len(params) = IF args[2] = StrV("") THEN 2 ELSE 3
                /\ params[1] = args[1]
                /\ params[Len(params)] = args[3]
                /\ args[2] # StrV("") => params[2] = args[2]

C28_Witness ==
    \E t \in DOMAIN pc :
        /\ call[t].op = "importPrivKey"
        /\ call[t].args = << StrV("x"), StrV(""), BoolV(FALSE) >>
        /\ call[t].params = ArrV(<< StrV("x"), BoolV(FALSE) >>)

\* The node a collection is encoded as: the sequence of its elements in
\* order (the mapping of its entries, for a map), or null when it is empty.
EncodedCollection(x) == IF x \in {ArrV(<<>>), ObjV(<<>>)} THEN Null ELSE x

Holds(v, x) ==
    CASE x.ctype = "bool" -> v.type = "bool" /\ v.b = x.b
      [] x.ctype = "int" -> v.type = "int" /\ v.n = x.n
      [] x.ctype = "double" -> v.type = "real" /\ v.n = x.n
      [] x.ctype = "string" -> v.type = "string" /\ v.s = x.s
      [] x.ctype = "Json::Value" -> v = x.j

\* C30: buildParams(a1, ..., an), n >= 1, returns a sequence of exactly n
\* elements whose i-th element is ai: order and count are kept, and no
\* argument is dropped, coerced or moved (a boolean stays a boolean, an
\* integer an integer, a nested sequence or mapping one node).
C30_BuildParamsKeepsArguments ==
    \A t \in DOMAIN pc :
        call[t].op = "buildParams" =>
            /\ Len(call[t].args) >= 1
            /\ call[t].params.type = "array"
            /\ Len(call[t].params.a) = Len(call[t].args)
            /\ \A i \in 1 .. Len(call[t].args) : Holds(call[t].params.a[i], call[t].args[i])

C30_Witness ==
    \E t \in DOMAIN pc :
        /\ pc[t] = "built"
        /\ call[t].args = << CppArg("bool", TRUE, 0, "", Null),
                             CppArg("Json::Value", FALSE, 0, "", Null),
                             CppArg("Json::Value", FALSE, 0, "", ArrV(<< Outpoint >>)) >>
        /\ call[t].params = ArrV(<< BoolV(TRUE), Null, ArrV(<< Outpoint >>) >>)

====
